---- MODULE Spec2Model ----
(***************************************************************************)
(* Model of the timeliner ingestion engine: the per-item lock, the item    *)
(* storage path run by the worker pool, the data file handling, the        *)
(* checkpoint wrapper and the get-all / get-latest drivers with prune.     *)
(* One account of one data source is modelled.                             *)
(***************************************************************************)
EXTENDS Integers, Sequences, FiniteSets, TLC

VARIABLES
    items,      \* table items: row id -> row
    account,    \* the accounts row: checkpoint blob and last_item_id
    fs,         \* repository directory: path -> bytes of the file
    lockset,    \* itemLocks.set, the keys currently locked
    wpc,        \* position of each worker goroutine
    wl,         \* locals of each worker goroutine
    wc,         \* the WrappedClient: acc.cp, commandParams, last item tracked
    op,         \* the running operation (GetAll / GetLatest) and its adapter
    drv,        \* the command-line driver's retry loop
    cfg,        \* what the service lists and which options the user gives
    people,     \* tables persons and person_identities
    relationships, \* table relationships: <<from_item_id, to_item_id>>
    hist        \* history of the run: what reached the processor and how it ended

vars == <<items, account, fs, lockset, wpc, wl, wc, op, drv, cfg, people,
          relationships, hist>>

----------------------------------------------------------------------------
\* Bounds of the model

\* attempts the driver makes of one command: 1 + maxRetries
MaxAttempts == 2
\* injected I/O failures (upsert, open, download) per behaviour
MaxFaults == 1

\* const workers = 2
workers == 2

\* the loop bound of openUniqueCanonicalItemDataFile
MaxTries == 100

----------------------------------------------------------------------------
\* Values

NULL == "NULL"          \* a nil *string / SQL NULL in a text column
NoPath == <<>>          \* a nil data file name
NoHash == <<>>          \* a nil data hash
NoTime == 0             \* a nil *time.Time / NULL integer column
NoReader == "noreader"  \* DataFileReader() returned nil
EmptyFile == ""         \* bytes of a file just created
NoCheckpoint == <<>>    \* NULL checkpoint column / nil blob

\* SHA-256 of a file's bytes, base64-encoded (collision-free)
Hash(bytes) == <<"sha256", bytes>>

\* month directory of a timestamp: timestamps 1,2 share a month, 3,4 the next
Month(ts) == (ts + 1) \div 2

\* data/<year>/<month>/<source>/<name>[_<n>][.bak]
Path(dir, name, n, bak) == <<dir, name, n, bak>>
BakOf(p) == Path(p[1], p[2], p[3], 1)

\* ---- file system primitives (os.Rename, os.Remove, os.OpenFile) ----
Exists(f, p) == p \in DOMAIN f

FsRemove(f, p) == [q \in DOMAIN f \ {p} |-> f[q]]

FsRename(f, a, b) ==
    IF ~Exists(f, a) THEN f
    ELSE [q \in (DOMAIN f \ {a}) \cup {b} |-> IF q = b THEN f[a] ELSE f[q]]

FsWrite(f, p, bytes) == [q \in DOMAIN f \cup {p} |-> IF q = p THEN bytes ELSE f[q]]

\* ---- rows ----
RowIds(tbl) == DOMAIN tbl

MaxId(S) == IF S = {} THEN 0 ELSE CHOOSE m \in S : \A n \in S : n <= m

\* the zero ItemRow{} that loadItemRow returns when there is no row
ZeroRow ==
    [id |-> 0, original_id |-> "", timestamp |-> NoTime, stored |-> NoTime,
     modified |-> NoTime, data_text |-> NULL, data_file |-> NoPath,
     data_hash |-> NoHash, metadata |-> NULL, latitude |-> NULL]


\* ---- what a worker goroutine holds while it is in storeItemFromService ----
NoItem ==
    [id |-> "", ts |-> NoTime, text |-> NULL, fname |-> NULL, bytes |-> NoReader,
     svchash |-> NULL, lat |-> NULL, owner |-> NULL, coll |-> <<>>,
     edges |-> <<>>]

BlankLocal ==
    [it |-> NoItem, oid |-> "", soft |-> FALSE, smRow |-> 0, held |-> FALSE,
     ir |-> ZeroRow, pdf |-> FALSE, bakOrig |-> NoPath, dfn |-> NoPath,
     rowid |-> 0, err |-> "nil", fail |-> FALSE,
     \* getPerson's p.ID; the item is a collection member; what of the graph
     \* is still to store
     person |-> 0, member |-> FALSE, rest |-> <<>>,
     \* the item is the target of an edge; the row id of the graph's node
     edge |-> FALSE, from |-> 0]

WorkerIds == 1..(workers * MaxAttempts)
\* the goroutines beginProcessing starts for the a-th attempt
WorkersOf(a) == {w \in WorkerIds : (w + workers - 1) \div workers = a}

----------------------------------------------------------------------------
\* mapMutex

\* a lock that never finds the key taken
lockedNever(key) == FALSE
locked(key) == key \in lockset

\* the body of Lock under cond.L: wait while the key is locked, else take it
MapMutexLock(w, key, next) ==
    IF locked(key)
    THEN /\ wpc' = [wpc EXCEPT ![w] = "waiting"]
         /\ UNCHANGED <<lockset, wl>>
    ELSE /\ lockset' = lockset \cup {key}
         /\ wpc' = [wpc EXCEPT ![w] = next]
         /\ wl' = [wl EXCEPT ![w].held = TRUE]

\* an Unlock that wakes nobody
BroadcastNone(pcs) == pcs

\* Unlock: delete the key and cond.Broadcast(): every waiter re-checks
Broadcast(pcs) == [v \in DOMAIN pcs |-> IF pcs[v] = "waiting" THEN "lock" ELSE pcs[v]]
MapMutexUnlock(set, key) == set \ {key}

----------------------------------------------------------------------------
\* Queries and statements of the storage path

\* data_file LIKE '%/' || name
LikeFileName(p, name) == p # NoPath /\ p[2] = name /\ p[3] = 0 /\ p[4] = 0

\* the candidate rows of softMerge's SELECT; the data_hash=? disjunct compares
\* the TEXT column with the BLOB the service hash is bound as, and never holds
SoftMergeCandidates(tbl, it) ==
    {r \in RowIds(tbl) :
        /\ tbl[r].timestamp = it.ts
        /\ \/ (it.text # NULL /\ tbl[r].data_text = it.text)
           \/ (it.fname # NULL /\ LikeFileName(tbl[r].data_file, it.fname))
        /\ tbl[r].original_id # it.id}

\* SELECT ... WHERE account_id=? AND original_id=? LIMIT 1
RowIdOf(tbl, oid) ==
    LET S == {r \in RowIds(tbl) : tbl[r].original_id = oid}
    IN IF S = {} THEN 0 ELSE CHOOSE r \in S : TRUE

loadItemRow(tbl, oid) ==
    LET r == RowIdOf(tbl, oid)
    IN IF r = 0 THEN ZeroRow ELSE [tbl[r] EXCEPT !.id = r]

\* the integrity branch: the file cannot be opened or its checksum mismatches
IntegrityMismatch(f, dbItem) ==
    \/ ~Exists(f, dbItem.data_file)
    \/ Hash(f[dbItem.data_file]) # dbItem.data_hash

\* a shouldProcessExistingItem that has every listed item processed again
shouldProcessAlways(f, it, dbItem, doingSoftMerge, po) == TRUE

shouldProcessExistingItem(f, it, dbItem, doingSoftMerge, po) ==
    IF /\ po.Integrity /\ dbItem.data_file # NoPath /\ dbItem.data_hash # NoHash
       /\ IntegrityMismatch(f, dbItem)
    THEN TRUE
    ELSE IF dbItem.modified # NoTime THEN FALSE
    ELSE IF dbItem.data_file # NoPath /\ dbItem.data_hash = NoHash THEN TRUE
    ELSE IF it.svchash # NULL /\ dbItem.metadata # NULL /\ it.svchash # dbItem.metadata
    THEN TRUE
    ELSE po.Reprocess \/ doingSoftMerge

\* processDataFile for an item whose row exists
keepNewDataFile(hasReader, ir, doingSoftMerge, po) ==
    hasReader /\ (ir.data_file = NoPath \/ ~doingSoftMerge \/ po.PreferNewDataFile)

canonicalItemDataFileName(it) ==
    IF it.fname # NULL THEN it.fname ELSE "item_" \o it.id

\* the first name openUniqueCanonicalItemDataFile can create exclusively:
\* the canonical name, then _1, _2, ...; MaxTries when none is free
UniqueSuffix(f, it) ==
    LET free == {n \in 0..(MaxTries - 1) :
                    ~Exists(f, Path(Month(it.ts), canonicalItemDataFileName(it), n, 0))}
    IN IF free = {} THEN MaxTries ELSE CHOOSE n \in free : \A m \in free : n <= m

\* the row values fillItemRow assembles: ir keeps the id, modified and
\* data_hash it was loaded with
fillItemRow(ir, it, itemOriginalID, timestamp, canonicalDataFileName) ==
    [ir EXCEPT !.original_id = itemOriginalID,
               !.timestamp = it.ts,
               !.stored = timestamp,
               !.data_text = it.text,
               !.data_file = canonicalDataFileName,
               !.metadata = it.svchash,
               !.latitude = it.lat]

\* COALESCE(a, b) over the typed nulls
Coalesce(a, b, null) == IF a # null THEN a ELSE b

\* INSERT ... ON CONFLICT (account_id, original_id) DO UPDATE SET ...
insertOrUpdateItem(tbl, ir, softMerge, po) ==
    LET r == RowIdOf(tbl, ir.original_id)
        old == tbl[r]
        merged ==
            [old EXCEPT
                !.timestamp = Coalesce(old.timestamp, ir.timestamp, NoTime),
                !.stored = ir.stored,
                !.data_text = IF po.PreferNewDataText
                              THEN Coalesce(ir.data_text, old.data_text, NULL)
                              ELSE Coalesce(old.data_text, ir.data_text, NULL),
                !.data_file = Coalesce(old.data_file, ir.data_file, NoPath),
                !.data_hash = Coalesce(old.data_hash, ir.data_hash, NoHash),
                !.metadata = IF po.PreferNewMetadata
                             THEN Coalesce(ir.metadata, old.metadata, NULL)
                             ELSE Coalesce(old.metadata, ir.metadata, NULL),
                !.latitude = Coalesce(old.latitude, ir.latitude, NULL)]
        replaced ==
            [old EXCEPT
                !.timestamp = ir.timestamp, !.stored = ir.stored,
                !.data_text = ir.data_text, !.data_file = ir.data_file,
                !.data_hash = ir.data_hash, !.metadata = ir.metadata,
                !.latitude = ir.latitude]
        n == MaxId(RowIds(tbl)) + 1
        fresh == [ir EXCEPT !.id = n, !.modified = NoTime]
    IN IF r # 0
       THEN [tbl EXCEPT ![r] = IF softMerge THEN merged ELSE replaced]
       ELSE [q \in RowIds(tbl) \cup {n} |-> IF q = n THEN fresh ELSE tbl[q]]

\* the rows replaceWithExisting's SELECT may return (LIMIT 1 of them)
SameHashRows(tbl, checksum, itemRowID) ==
    {r \in RowIds(tbl) : tbl[r].data_hash = checksum /\ r # itemRowID}

----------------------------------------------------------------------------
\* The worker goroutines of beginProcessing, one step per statement of
\* processSingleItemGraphNode / storeItemFromService that touches shared state

Alive == ~drv.crashed
Running(w) == Alive /\ w \in WorkerIds
CanFault == drv.faults < cfg.faults
Fault == drv' = [drv EXCEPT !.faults = @ + 1]
procOpt == cfg.procOpt
\* processCollection stores its members without Reprocess and Integrity
ProcOptOf(w) ==
    IF wl[w].member THEN [procOpt EXCEPT !.Reprocess = FALSE, !.Integrity = FALSE]
    ELSE procOpt

\* storeItemFromService returns an error before it took the lock
ReturnUnlocked(w) ==
    /\ wpc' = [wpc EXCEPT ![w] = "recv"]
    /\ wl' = [wl EXCEPT ![w] = BlankLocal]
    /\ hist' = [hist EXCEPT !.failed = TRUE,
                             !.done = @ \cup {wl[w].it.id},
                             !.errs = @ \cup {wl[w].it.id}]

\* a softMerge that merges into one of several candidates
WSoftMergeAny(w) ==
    /\ Running(w) /\ wpc[w] = "softMerge"
    /\ LET it == wl[w].it
           cands == SoftMergeCandidates(items, it)
       IN IF cands = {}
          THEN /\ wpc' = [wpc EXCEPT ![w] = "lock"]
               /\ wl' = [wl EXCEPT ![w].oid = it.id, ![w].soft = FALSE]
          ELSE LET r == CHOOSE c \in cands : TRUE
               IN IF ~procOpt.PreferNewID
                  THEN /\ wpc' = [wpc EXCEPT ![w] = "lock"]
                       /\ wl' = [wl EXCEPT ![w].oid = items[r].original_id,
                                           ![w].soft = TRUE, ![w].smRow = r]
                  ELSE /\ wpc' = [wpc EXCEPT ![w] = "smUpdate"]
                       /\ wl' = [wl EXCEPT ![w].smRow = r]
    /\ UNCHANGED <<items, account, fs, lockset, wc, op, drv, cfg, people, hist, relationships>>

\* softMerge: COUNT the candidates; none: no merge; several: ambiguous, the
\* item is skipped; one: use its id, or go on to rewrite its original_id
WSoftMerge(w) ==
    /\ Running(w) /\ wpc[w] = "softMerge"
    /\ LET it == wl[w].it
           cands == SoftMergeCandidates(items, it)
       IN IF cands = {}
          THEN /\ wpc' = [wpc EXCEPT ![w] = "lock"]
               /\ wl' = [wl EXCEPT ![w].oid = it.id, ![w].soft = FALSE]
               /\ UNCHANGED hist
          ELSE IF Cardinality(cands) > 1
          THEN ReturnUnlocked(w)
          ELSE LET r == CHOOSE c \in cands : TRUE
               IN IF ~procOpt.PreferNewID
                  THEN /\ wpc' = [wpc EXCEPT ![w] = "lock"]
                       /\ wl' = [wl EXCEPT ![w].oid = items[r].original_id,
                                           ![w].soft = TRUE, ![w].smRow = r]
                       /\ UNCHANGED hist
                  ELSE /\ wpc' = [wpc EXCEPT ![w] = "smUpdate"]
                       /\ wl' = [wl EXCEPT ![w].smRow = r]
                       /\ UNCHANGED hist
    /\ UNCHANGED <<items, account, fs, lockset, wc, op, drv, cfg, people, relationships>>

\* softMerge: UPDATE items SET original_id=<new> WHERE id=<candidate>; the
\* UNIQUE (original_id, account_id) constraint fails it when the id is taken
WSoftMergeUpdate(w) ==
    /\ Running(w) /\ wpc[w] = "smUpdate"
    /\ LET it == wl[w].it
           r == wl[w].smRow
       IN IF r \in RowIds(items) /\ RowIdOf(items, it.id) \notin {0, r}
          THEN ReturnUnlocked(w) /\ UNCHANGED items
          ELSE /\ items' = IF r \in RowIds(items)
                           THEN [items EXCEPT ![r].original_id = it.id]
                           ELSE items
               /\ wpc' = [wpc EXCEPT ![w] = "lock"]
               /\ wl' = [wl EXCEPT ![w].oid = it.id, ![w].soft = TRUE]
               /\ UNCHANGED hist
    /\ UNCHANGED <<account, fs, lockset, wc, op, drv, cfg, people, relationships>>

\* itemLocks.Lock(itemLockID), also when woken from cond.Wait()
WLock(w) ==
    /\ Running(w) /\ wpc[w] = "lock"
    /\ MapMutexLock(w, wl[w].oid, "load")
    /\ UNCHANGED <<items, account, fs, wc, op, drv, cfg, people, hist, relationships>>

\* DataFileReader, loadItemRow, shouldProcessExistingItem, processDataFile
WLoad(w) ==
    /\ Running(w) /\ wpc[w] = "load"
    /\ LET it == wl[w].it
           hasReader == it.bytes # NoReader
           ir == loadItemRow(items, wl[w].oid)
           pdf == IF ir.id > 0 THEN keepNewDataFile(hasReader, ir, wl[w].soft, ProcOptOf(w))
                  ELSE hasReader
       IN IF ir.id > 0 /\ ~shouldProcessExistingItem(fs, it, ir, wl[w].soft, ProcOptOf(w))
          THEN /\ wpc' = [wpc EXCEPT ![w] = "ret"]
               /\ wl' = [wl EXCEPT ![w].ir = ir, ![w].rowid = ir.id]
          ELSE /\ wpc' = [wpc EXCEPT ![w] =
                            IF ~pdf THEN "upsert" ELSE IF ir.id > 0 THEN "stage" ELSE "open"]
               /\ wl' = [wl EXCEPT ![w].ir = ir, ![w].pdf = pdf]
    /\ UNCHANGED <<items, account, fs, lockset, wc, op, drv, cfg, people, hist, relationships>>

\* move the existing data file to <name>.bak and defer its removal or
\* restoration; *ir.DataFile is dereferenced: a nil DataFile panics
WStage(w) ==
    /\ Running(w) /\ wpc[w] = "stage"
    /\ IF wl[w].ir.data_file = NoPath
       THEN /\ drv' = [drv EXCEPT !.crashed = TRUE]
            /\ UNCHANGED <<fs, wpc, wl>>
       ELSE /\ fs' = FsRename(fs, wl[w].ir.data_file, BakOf(wl[w].ir.data_file))
            /\ wl' = [wl EXCEPT ![w].bakOrig = wl[w].ir.data_file]
            /\ wpc' = [wpc EXCEPT ![w] = "open"]
            /\ UNCHANGED drv
    /\ UNCHANGED <<items, account, lockset, wc, op, cfg, people, hist, relationships>>

\* openUniqueCanonicalItemDataFile: create the file exclusively
WOpen(w) ==
    /\ Running(w) /\ wpc[w] = "open"
    /\ LET it == wl[w].it
           n == UniqueSuffix(fs, it)
           p == Path(Month(it.ts), canonicalItemDataFileName(it), n, 0)
       IN \/ /\ n < MaxTries
             /\ fs' = FsWrite(fs, p, EmptyFile)
             /\ wl' = [wl EXCEPT ![w].dfn = p]
             /\ wpc' = [wpc EXCEPT ![w] = "upsert"]
             /\ UNCHANGED drv
          \/ /\ CanFault \/ n = MaxTries
             /\ IF n = MaxTries THEN UNCHANGED drv ELSE Fault
             /\ wl' = [wl EXCEPT ![w].err = "err", ![w].fail = TRUE]
             /\ wpc' = [wpc EXCEPT ![w] = "ret"]
             /\ UNCHANGED fs
    /\ UNCHANGED <<items, account, lockset, wc, op, cfg, people, hist, relationships>>

\* acc.UserID
UserID == "me"

\* it.Owner(), the account's user when the item names none
OwnerOf(it) == IF it.owner = NULL THEN UserID ELSE it.owner

\* the rows of getPerson's SELECT for a user id
IdentitiesOf(ppl, user) == {i \in ppl.identities : i[2] = user}

\* insertOrUpdateItem with the row fillItemRow assembled, or its failure
Upsert(w) ==
    \/ /\ items' = insertOrUpdateItem(items,
                      fillItemRow(wl[w].ir, wl[w].it, wl[w].oid, drv.attempt, wl[w].dfn),
                      wl[w].soft, ProcOptOf(w))
       /\ wpc' = [wpc EXCEPT ![w] = "rowid"]
       /\ UNCHANGED <<wl, drv>>
    \/ /\ CanFault /\ Fault
       /\ wl' = [wl EXCEPT ![w].err = "err", ![w].fail = TRUE]
       /\ wpc' = [wpc EXCEPT ![w] = "ret"]
       /\ UNCHANGED items

\* fillItemRow: getPerson finds the owner's person and the row is upserted, or
\* finds none and goes on to create one
WUpsert(w) ==
    /\ Running(w) /\ wpc[w] = "upsert"
    /\ LET user == OwnerOf(wl[w].it)
           S == IdentitiesOf(people, user)
       IN IF S = {}
          THEN /\ wpc' = [wpc EXCEPT ![w] = "personIns"]
               /\ UNCHANGED <<items, wl, drv, hist>>
          ELSE /\ \E i \in S : hist' = [hist EXCEPT !.persons = @ \cup {<<user, i[1]>>}]
               /\ Upsert(w)
    /\ UNCHANGED <<account, fs, lockset, wc, op, cfg, people, relationships>>

\* getPerson: INSERT INTO persons (name)
WPersonInsert(w) ==
    /\ Running(w) /\ wpc[w] = "personIns"
    /\ LET id == MaxId(people.persons) + 1
       IN /\ people' = [people EXCEPT !.persons = @ \cup {id}]
          /\ wl' = [wl EXCEPT ![w].person = id]
    /\ wpc' = [wpc EXCEPT ![w] = "identIns"]
    /\ UNCHANGED <<items, account, fs, lockset, wc, op, drv, cfg, hist, relationships>>

\* getPerson: INSERT INTO person_identities (person_id, data_source_id,
\* user_id); UNIQUE covers the three columns together
WIdentityInsert(w) ==
    /\ Running(w) /\ wpc[w] = "identIns"
    /\ LET user == OwnerOf(wl[w].it)
       IN /\ people' = [people EXCEPT !.identities = @ \cup {<<wl[w].person, user>>}]
          /\ hist' = [hist EXCEPT !.persons = @ \cup {<<user, wl[w].person>>}]
    /\ wpc' = [wpc EXCEPT ![w] = "insert"]
    /\ UNCHANGED <<items, account, fs, lockset, wl, wc, op, drv, cfg, relationships>>

\* fillItemRow and insertOrUpdateItem after getPerson created the person
WInsert(w) ==
    /\ Running(w) /\ wpc[w] = "insert"
    /\ Upsert(w)
    /\ UNCHANGED <<account, fs, lockset, wc, op, cfg, people, hist, relationships>>

\* SELECT id FROM items WHERE account_id=? AND original_id=?; sql.ErrNoRows
\* is let through and leaves itemRowID = 0
WRowId(w) ==
    /\ Running(w) /\ wpc[w] = "rowid"
    /\ LET r == RowIdOf(items, wl[w].oid)
       IN /\ wl' = [wl EXCEPT ![w].rowid = r,
                              ![w].err = IF r = 0 THEN "norows" ELSE "nil"]
          /\ wpc' = [wpc EXCEPT ![w] = IF wl[w].pdf THEN "download" ELSE "ret"]
    /\ UNCHANGED <<items, account, fs, lockset, wc, op, drv, cfg, people, hist, relationships>>

\* downloadItemFile: copy the reader into the file, or fail and remove the
\* file; the error is assigned to the err declared inside the if block
WDownload(w) ==
    /\ Running(w) /\ wpc[w] = "download"
    /\ \/ /\ fs' = IF Exists(fs, wl[w].dfn)
                   THEN FsWrite(fs, wl[w].dfn, wl[w].it.bytes) ELSE fs
          /\ wpc' = [wpc EXCEPT ![w] = "dedup"]
          /\ UNCHANGED <<wl, drv>>
       \/ /\ CanFault /\ Fault
          /\ fs' = FsRemove(fs, wl[w].dfn)
          /\ wl' = [wl EXCEPT ![w].fail = TRUE]
          /\ wpc' = [wpc EXCEPT ![w] = "ret"]
    /\ UNCHANGED <<items, account, lockset, wc, op, cfg, people, hist, relationships>>


\* replaceWithExisting: when another row has the same hash, check that row's
\* file and delete the new copy; the row of the current item is not touched
WDedup(w) ==
    /\ Running(w) /\ wpc[w] = "dedup"
    /\ LET canonical == wl[w].dfn
           checksum == Hash(wl[w].it.bytes)
           S == SameHashRows(items, checksum, wl[w].rowid)
           ok(f) == /\ fs' = f
                    /\ wpc' = [wpc EXCEPT ![w] = "hashupd"]
                    /\ UNCHANGED wl
           failed(f) == /\ fs' = f
                        /\ wl' = [wl EXCEPT ![w].fail = TRUE]
                        /\ wpc' = [wpc EXCEPT ![w] = "ret"]
       IN IF S = {} THEN ok(fs)
          ELSE \E r \in S :
                LET existing == items[r].data_file
                IN IF existing = NoPath \/ ~Exists(fs, existing) THEN failed(fs)
                   ELSE IF Hash(fs[existing]) # checksum
                   THEN \* restore the modified file; the os.Remove that
                        \* follows then finds no file and fails
                        IF Exists(fs, canonical)
                        THEN failed(FsRename(fs, canonical, existing))
                        ELSE failed(fs)
                   ELSE IF Exists(fs, canonical) THEN ok(FsRemove(fs, canonical))
                   ELSE failed(fs)
    /\ UNCHANGED <<items, account, lockset, wc, op, drv, cfg, people, hist, relationships>>

\* UPDATE items SET data_hash=? WHERE id=?
WHashUpdate(w) ==
    /\ Running(w) /\ wpc[w] = "hashupd"
    /\ items' = IF wl[w].rowid \in RowIds(items)
                THEN [items EXCEPT ![wl[w].rowid].data_hash = Hash(wl[w].it.bytes)]
                ELSE items
    /\ wpc' = [wpc EXCEPT ![w] = "ret"]
    /\ UNCHANGED <<account, fs, lockset, wl, wc, op, drv, cfg, people, hist, relationships>>

\* the deferred function of the .bak: it tests the function's outer err
DeferBak(f, bakOrig, err) ==
    IF bakOrig = NoPath THEN f
    ELSE IF err = "nil" THEN FsRemove(f, BakOf(bakOrig))
    ELSE FsRename(f, BakOf(bakOrig), bakOrig)

\* processSingleItemGraphNode after a successful store: keep the row with
\* the highest timestamp
TrackLastItem(c, rowid, itemTS) ==
    IF c.lastItemTimestamp = NoTime \/ c.lastItemTimestamp < itemTS
    THEN [c EXCEPT !.lastItemRowID = rowid, !.lastItemTimestamp = itemTS]
    ELSE c

\* where a worker enters storeItemFromService
StorePc == IF procOpt.SoftMerge THEN "softMerge" ELSE "lock"

\* the operation whose beginProcessing started the worker
AttemptOf(w) == (w + workers - 1) \div workers

\* what processItemGraph does after its node: the connected nodes of the
\* edges, each processed as a node, then the members of the collection that
\* are not in state.idmap (the node and the connected nodes)
Steps(it) ==
    LET seen == {it.id} \cup {it.edges[i].id : i \in DOMAIN it.edges}
    IN [i \in DOMAIN it.edges |-> [kind |-> "edge", it |-> it.edges[i]]]
       \o [i \in DOMAIN SelectSeq(it.coll, LAMBDA m : m.id \notin seen) |->
             [kind |-> "member",
              it |-> SelectSeq(it.coll, LAMBDA m : m.id \notin seen)[i]]]

\* the worker goes on to the next item of its graph, or receives again
Proceed(w, todo, from, endPc) ==
    IF todo # <<>>
    THEN /\ wl' = [wl EXCEPT ![w] =
                     [BlankLocal EXCEPT !.it = Head(todo).it,
                                        !.oid = Head(todo).it.id,
                                        !.member = Head(todo).kind = "member",
                                        !.edge = Head(todo).kind = "edge",
                                        !.rest = Tail(todo),
                                        !.from = from]]
         /\ wpc' = [Broadcast(wpc) EXCEPT ![w] = StorePc]
         \* a connected node enters processSingleItemGraphNode: filter insertion
         /\ op' = IF Head(todo).kind = "edge" /\ procOpt.Prune /\ cfg.kind # "get-latest"
                     /\ AttemptOf(w) = drv.attempt
                  THEN [op EXCEPT !.cuckoo = @ \cup {Head(todo).it.id}]
                  ELSE op
    ELSE /\ wl' = [wl EXCEPT ![w] = BlankLocal]
         /\ wpc' = [Broadcast(wpc) EXCEPT ![w] = endPc]
         /\ UNCHANGED op

\* storeItemFromService returns: the deferred calls run (.bak, Unlock).  For
\* a graph node or a connected node processSingleItemGraphNode then tracks
\* the last item; after a connected node its relation is inserted; then
\* processItemGraph goes on with the rest of the graph: processCollection
\* calls storeItemFromService for each member directly.  An error ends the
\* graph; after the last item the worker is at failPc or receives again.
Return(w, failPc) ==
    /\ Running(w) /\ wpc[w] = "ret"
    /\ LET l == wl[w]
           ok == ~l.fail
           inner == l.member \/ l.edge
           todo == IF ~ok THEN <<>> ELSE IF inner THEN l.rest ELSE Steps(l.it)
           from == IF inner THEN l.from ELSE l.rowid
       IN /\ wc' = IF ok /\ ~l.member THEN TrackLastItem(wc, l.rowid, l.it.ts) ELSE wc
          /\ IF ok /\ l.edge
             THEN /\ wl' = [wl EXCEPT ![w] =
                              [BlankLocal EXCEPT !.it = l.it, !.rowid = l.rowid,
                                                 !.edge = TRUE, !.rest = l.rest,
                                                 !.from = l.from]]
                  /\ wpc' = [Broadcast(wpc) EXCEPT ![w] = "relate"]
                  /\ UNCHANGED op
             ELSE Proceed(w, todo, from, IF l.fail THEN failPc ELSE "recv")
          /\ hist' = [hist EXCEPT
                        !.stored = IF ok THEN @ \cup {<<l.rowid, l.it.ts>>} ELSE @,
                        !.failed = @ \/ l.fail,
                        !.done = @ \cup {l.it.id},
                        !.errs = IF l.fail THEN @ \cup {l.it.id} ELSE @,
                        !.reached = IF todo # <<>> /\ ~(ok /\ l.edge)
                                    THEN @ \cup {Head(todo).it.id} ELSE @]
    /\ fs' = DeferBak(fs, wl[w].bakOrig, wl[w].err)
    /\ lockset' = MapMutexUnlock(lockset, wl[w].oid)
    /\ UNCHANGED <<items, account, drv, cfg, people, relationships>>

\* a worker that ends at the first item whose processing fails
WReturnQuits(w) == Return(w, "done")

\* the worker logs the error of processItemGraph and receives the next graph
WReturn(w) == Return(w, "recv")

\* INSERT OR IGNORE INTO relationships (from_item_id, to_item_id, ...): the
\* foreign keys are enforced, an endpoint that is no row fails the statement
WRelate(w) ==
    /\ Running(w) /\ wpc[w] = "relate"
    /\ LET l == wl[w]
           fk == l.from \in RowIds(items) /\ l.rowid \in RowIds(items)
       IN /\ relationships' = IF fk THEN relationships \cup {<<l.from, l.rowid>>}
                               ELSE relationships
          /\ Proceed(w, IF fk THEN l.rest ELSE <<>>, l.from, "recv")
          /\ hist' = [hist EXCEPT
                        !.failed = @ \/ ~fk,
                        !.reached = IF fk /\ l.rest # <<>>
                                    THEN @ \cup {Head(l.rest).it.id} ELSE @]
    /\ UNCHANGED <<items, account, fs, lockset, wc, drv, cfg, people>>

ChannelClosed(w) == AttemptOf(w) < drv.attempt \/ op.closed

\* range over the channel ends when the adapter has closed it: wg.Done()
WExit(w) ==
    /\ Running(w) /\ wpc[w] = "recv" /\ ChannelClosed(w)
    /\ wpc' = [wpc EXCEPT ![w] = "done"]
    /\ UNCHANGED <<items, account, fs, lockset, wl, wc, op, drv, cfg, people, hist, relationships>>

----------------------------------------------------------------------------
\* Checkpoints

NoBlob == 0

Timeframe(since, until, sinceItemID, untilItemID) ==
    [Since |-> since, Until |-> until, SinceItemID |-> sinceItemID,
     UntilItemID |-> untilItemID]

\* Timeframe.String(): a nil item id prints like the empty one
TimeframeString(tf) ==
    <<tf.Since, tf.Until,
      IF tf.SinceItemID = NULL THEN "" ELSE tf.SinceItemID,
      IF tf.UntilItemID = NULL THEN "" ELSE tf.UntilItemID>>

\* MarshalGob(checkpointWrapper{Params, Data}) and its decoding
MarshalGob(params, data) == <<"gob", params, data>>
UnmarshalGob(blob) == IF blob = NoCheckpoint THEN NoCheckpoint ELSE <<blob[2], blob[3]>>

\* prepareCheckpoint: the data of acc.cp only when its Params are the new ones
prepareCheckpoint(cp, commandParams) ==
    IF cp = NoCheckpoint \/ cp[1] # commandParams THEN NoBlob ELSE cp[2]


----------------------------------------------------------------------------
\* Prune

\* listItemsToDelete: the rows whose original_id is not in the filter (the
\* cuckoo filter is taken as an exact set)
listItemsToDelete(tbl, cuckoo) ==
    {r \in RowIds(tbl) : tbl[r].original_id # "" /\ tbl[r].original_id \notin cuckoo}

\* a deleteItem that removes the data file whatever the count of rows is
deleteItemAlways(st, rowID) ==
    LET dataFile == st.items[rowID].data_file
    IN IF dataFile = NoPath THEN st
       ELSE [items |-> [q \in RowIds(st.items) \ {rowID} |-> st.items[q]],
             account |-> IF st.account.last_item_id = rowID
                         THEN [st.account EXCEPT !.last_item_id = 0]
                         ELSE st.account,
             fs |-> FsRemove(st.fs, dataFile)]

\* deleteItem on the state st = [items, fs, account].  The COUNT(*) query
\* yields (0, NULL) for a row without data file and Scan cannot store NULL
\* in a string: deleteItem returns that error before the DELETE.
deleteItem(st, rowID) ==
    LET dataFile == st.items[rowID].data_file
        count == Cardinality({q \in RowIds(st.items) : st.items[q].data_file = dataFile})
    IN IF dataFile = NoPath THEN st
       ELSE [items |-> [q \in RowIds(st.items) \ {rowID} |-> st.items[q]],
             account |-> IF st.account.last_item_id = rowID
                         THEN [st.account EXCEPT !.last_item_id = 0]
                         ELSE st.account,
             fs |-> IF count = 1 THEN FsRemove(st.fs, dataFile) ELSE st.fs]

RECURSIVE deleteItems(_, _)
deleteItems(st, rowIDs) ==
    IF rowIDs = {} THEN st
    ELSE LET r == CHOOSE m \in rowIDs : \A n \in rowIDs : m <= n
         IN deleteItems(deleteItem(st, r), rowIDs \ {r})

\* doPrune refuses when the accounts row has a checkpoint
pruneRefused(acc) == acc.checkpoint # NoCheckpoint

doPrune(st, cuckoo) ==
    IF pruneRefused(st.account) THEN st
    ELSE deleteItems(st, listItemsToDelete(st.items, cuckoo))

----------------------------------------------------------------------------
\* The operations of WrappedClient and the adapter's ListItems

NoOp ==
    [pc |-> "none", tf |-> Timeframe(NoTime, NoTime, NULL, NULL),
     checkpoint |-> NoBlob, cuckoo |-> {}, pos |-> 0, closed |-> FALSE,
     \* the accounts column itself, when it is what the adapter is handed
     raw |-> NoCheckpoint,
     cancelled |-> FALSE, result |-> "none", refused |-> FALSE,
     \* what the accounts row and the table held when the operation began
     startCheckpoint |-> NoCheckpoint, startRows |-> {}, startLastItem |-> 0,
     \* the checkpoint most recently written to the accounts row
     recorded |-> NoCheckpoint]

\* the retry loop of the command: the first call, or the call after an error
MayCall ==
    /\ Alive /\ drv.attempt < 1 + cfg.maxRetries
    /\ op.pc = "none" \/ (op.pc = "returned" /\ op.result = "err")

\* prepareCheckpoint, beginProcessing and the call of ListItems
BeginListing(tf) ==
    LET params == TimeframeString(tf)
        blob == prepareCheckpoint(wc.cp, params)
    IN /\ wc' = [wc EXCEPT !.commandParams = params]
       /\ op' = [NoOp EXCEPT !.pc = "listing", !.tf = tf, !.checkpoint = blob,
                             !.pos = blob,
                             !.startCheckpoint = account.checkpoint,
                             !.startRows = RowIds(items),
                             !.startLastItem = account.last_item_id,
                             !.recorded = account.checkpoint]
       /\ wpc' = [w \in WorkerIds |->
                    IF AttemptOf(w) = drv.attempt + 1 THEN "recv" ELSE wpc[w]]
       /\ drv' = [drv EXCEPT !.attempt = @ + 1]

GetAll ==
    /\ MayCall /\ cfg.kind = "get-all"
    /\ BeginListing(Timeframe(NoTime, procOpt.Until, NULL, NULL))
    /\ UNCHANGED <<items, account, fs, lockset, wl, cfg, people, hist, relationships>>

\* GetLatest: the window starts at the account's last item; nothing to do
\* when Until is before it
GetLatest ==
    /\ MayCall /\ cfg.kind = "get-latest"
    /\ LET last == wc.lastItemID
           known == last # 0 /\ last \in RowIds(items)
           mostRecentTimestamp == IF known THEN items[last].timestamp ELSE 0
           mostRecentOriginalID == IF known THEN items[last].original_id ELSE ""
           bounded == mostRecentTimestamp > 0 /\ procOpt.Until # NoTime
           tf == Timeframe(IF bounded THEN mostRecentTimestamp ELSE NoTime,
                           procOpt.Until,
                           IF mostRecentOriginalID # "" THEN mostRecentOriginalID ELSE NULL,
                           NULL)
       IN IF bounded /\ procOpt.Until < mostRecentTimestamp
          THEN /\ op' = [NoOp EXCEPT !.pc = "returned", !.result = "nil"]
               /\ drv' = [drv EXCEPT !.attempt = @ + 1]
               /\ UNCHANGED <<wc, wpc>>
          ELSE BeginListing(tf)
    /\ UNCHANGED <<items, account, fs, lockset, wl, cfg, people, hist, relationships>>

\* Import: no prepareCheckpoint; beginProcessing, then ListItems is handed
\* wc.acc.checkpoint as it is.  The adapters list a file from its start.
Import ==
    /\ Alive /\ op.pc = "none" /\ cfg.kind = "import"
    /\ op' = [NoOp EXCEPT !.pc = "listing",
                          !.tf = Timeframe(NoTime, procOpt.Until, NULL, NULL),
                          !.raw = wc.checkpoint,
                          !.startCheckpoint = account.checkpoint,
                          !.startRows = RowIds(items),
                          !.startLastItem = account.last_item_id,
                          !.recorded = account.checkpoint]
    /\ wpc' = [w \in WorkerIds |->
                 IF AttemptOf(w) = drv.attempt + 1 THEN "recv" ELSE wpc[w]]
    /\ drv' = [drv EXCEPT !.attempt = @ + 1]
    /\ UNCHANGED <<items, account, fs, lockset, wl, wc, cfg, people, hist, relationships>>

Listing == Alive /\ op.pc = "listing"

\* Checkpoint(ctx, blob): the wrapper of the command's parameters and the
\* adapter's blob is written to the accounts row
Checkpoint(acc, commandParams, blob) ==
    [acc EXCEPT !.checkpoint = MarshalGob(commandParams, blob)]

\* the adapter sends the next item graph and, if it is one that checkpoints,
\* records how far it has listed; a worker of this operation receives the
\* graph and enters processSingleItemGraphNode (filter insertion)
AdapterSend(w) ==
    /\ Listing /\ op.pos < Len(cfg.service)
    /\ AttemptOf(w) = drv.attempt /\ wpc[w] = "recv"
    /\ LET it == cfg.service[op.pos + 1]
       IN /\ op' = [op EXCEPT !.pos = @ + 1,
                              !.cuckoo = IF procOpt.Prune /\ cfg.kind # "get-latest" /\ it.id # ""
                                         THEN @ \cup {it.id} ELSE @,
                              !.recorded = IF cfg.checkpoints
                                           THEN MarshalGob(wc.commandParams, op.pos + 1)
                                           ELSE @]
          /\ wl' = [wl EXCEPT ![w] = [BlankLocal EXCEPT !.it = it, !.oid = it.id]]
          /\ wpc' = [wpc EXCEPT ![w] = StorePc]
          /\ hist' = [hist EXCEPT !.reached = @ \cup {it.id}]
    /\ account' = IF cfg.checkpoints
                  THEN Checkpoint(account, wc.commandParams, op.pos + 1)
                  ELSE account
    /\ UNCHANGED <<items, fs, lockset, wc, drv, cfg, people, relationships>>

\* the adapter has listed everything: it closes the channel and returns nil
AdapterReturn ==
    /\ Listing /\ op.pos = Len(cfg.service)
    /\ op' = [op EXCEPT !.pc = "wait", !.closed = TRUE]
    /\ UNCHANGED <<items, account, fs, lockset, wpc, wl, wc, drv, cfg, people, hist, relationships>>

\* the context is cancelled before everything is listed: the adapter's loop
\* sees ctx.Done() and returns nil
AdapterCancelled ==
    /\ Listing /\ op.pos < Len(cfg.service)
    /\ op' = [op EXCEPT !.pc = "wait", !.closed = TRUE, !.cancelled = TRUE]
    /\ UNCHANGED <<items, account, fs, lockset, wpc, wl, wc, drv, cfg, people, hist, relationships>>

\* a driver that runs the cleanup of a successful listing on the error path
AdapterErrorCleans ==
    /\ Listing /\ CanFault /\ Fault
    /\ op' = [op EXCEPT !.pc = "returned", !.closed = TRUE, !.result = "err"]
    /\ account' = [account EXCEPT !.checkpoint = NoCheckpoint]
    /\ UNCHANGED <<items, fs, lockset, wpc, wl, wc, cfg, people, hist, relationships>>

\* the listing fails: ListItems returns an error and so does the operation,
\* without waiting for the workers
AdapterError ==
    /\ Listing /\ CanFault /\ Fault
    /\ op' = [op EXCEPT !.pc = "returned", !.closed = TRUE, !.result = "err"]
    /\ UNCHANGED <<items, account, fs, lockset, wpc, wl, wc, cfg, people, hist, relationships>>

\* wg.Wait() returns, then successCleanup: clear the checkpoint, advance
\* last_item_id
successCleanup ==
    /\ Alive /\ op.pc = "wait"
    /\ \A w \in WorkersOf(drv.attempt) : wpc[w] = "done"
    /\ account' = [checkpoint |-> NoCheckpoint,
                   last_item_id |-> IF wc.lastItemRowID > 0 THEN wc.lastItemRowID
                                    ELSE account.last_item_id]
    /\ op' = IF procOpt.Prune /\ cfg.kind # "get-latest"
             THEN [op EXCEPT !.pc = "prune"]
             ELSE [op EXCEPT !.pc = "returned", !.result = "nil"]
    /\ wc' = [wc EXCEPT !.checkpoint = NoCheckpoint]
    /\ UNCHANGED <<items, fs, lockset, wpc, wl, drv, cfg, people, hist, relationships>>

\* a relationships table whose foreign keys have no ON DELETE CASCADE
CascadeNone(rels, deleted) == rels

\* FOREIGN KEY ("from_item_id"), ("to_item_id") REFERENCES "items"("id") ON
\* DELETE CASCADE: the rows that go with the deleted items
Cascade(rels, deleted) ==
    {r \in rels : r[1] \notin deleted /\ r[2] \notin deleted}

\* doPrune, and the return of GetAll
Prune ==
    /\ Alive /\ op.pc = "prune"
    /\ LET st == doPrune([items |-> items, fs |-> fs, account |-> account], op.cuckoo)
       IN /\ items' = st.items
          /\ fs' = st.fs
          /\ account' = st.account
          /\ relationships' = Cascade(relationships, RowIds(items) \ RowIds(st.items))
    /\ op' = [op EXCEPT !.pc = "returned",
                        !.refused = pruneRefused(account),
                        !.result = IF pruneRefused(account) THEN "err" ELSE "nil"]
    /\ UNCHANGED <<lockset, wpc, wl, wc, drv, cfg, people, hist>>


----------------------------------------------------------------------------
\* Archives, listings and commands the model is run on

Item(id, ts, text, fname, bytes) ==
    [id |-> id, ts |-> ts, text |-> text, fname |-> fname, bytes |-> bytes,
     svchash |-> NULL, lat |-> NULL, owner |-> NULL, coll |-> <<>>,
     edges |-> <<>>]

Row(id, oid, ts, modified, text, file, hash) ==
    [id |-> id, original_id |-> oid, timestamp |-> ts, stored |-> NoTime,
     modified |-> modified, data_text |-> text, data_file |-> file,
     data_hash |-> hash, metadata |-> NULL, latitude |-> NULL]

File(name) == Path(1, name, 0, 0)

\* edited: a data file was changed on disk after the engine stored it
Archive(rows, files, edited) ==
    [items |-> rows, fs |-> files, edited |-> edited, rels |-> {}]

\* one item with an intact data file
ArchOne ==
    Archive(<<Row(1, "e", 1, NoTime, NULL, File("f"), Hash("x"))>>,
            (File("f") :> "x"), FALSE)
\* a locally modified item whose data file was edited on disk
ArchModifiedEdited ==
    Archive(<<Row(1, "a", 1, 1, NULL, File("f"), Hash("x"))>>,
            (File("f") :> "t"), TRUE)
\* a locally modified item, data file intact
ArchModified ==
    Archive(<<Row(1, "a", 1, 1, NULL, File("f"), Hash("x"))>>,
            (File("f") :> "x"), FALSE)
\* three items: with a data file, text only, with another data file
ArchThree ==
    Archive(<<Row(1, "a", 1, NoTime, NULL, File("f"), Hash("x")),
              Row(2, "b", 2, NoTime, "hi", NoPath, NoHash),
              Row(3, "c", 2, NoTime, NULL, File("g"), Hash("y"))>>,
            (File("f") :> "x") @@ (File("g") :> "y"), FALSE)
\* one item with a text and an intact data file
ArchTextFile ==
    Archive(<<Row(1, "e", 1, NoTime, "hi", File("f"), Hash("x"))>>,
            (File("f") :> "x"), FALSE)
\* one item whose data file was edited on disk
ArchEdited ==
    Archive(<<Row(1, "e", 1, NoTime, NULL, File("f"), Hash("x"))>>,
            (File("f") :> "t"), TRUE)
\* three items, two of them with the same data file
ArchShared ==
    Archive(<<Row(1, "a", 1, NoTime, NULL, File("f"), Hash("x")),
              Row(2, "d", 1, NoTime, NULL, File("f"), Hash("x")),
              Row(3, "c", 2, NoTime, NULL, File("g"), Hash("y"))>>,
            (File("f") :> "x") @@ (File("g") :> "y"), FALSE)
\* one item whose metadata has the hash the service reported
ArchServiceHash ==
    Archive(<<[Row(1, "e", 1, NoTime, NULL, File("f"), Hash("x")) EXCEPT !.metadata = "s"]>>,
            (File("f") :> "x"), FALSE)
\* one item that has a text, a data file and metadata
ArchFull ==
    Archive(<<[Row(1, "e", 1, NoTime, "hi", File("f"), Hash("x")) EXCEPT !.metadata = "s"]>>,
            (File("f") :> "x"), FALSE)
ArchEmpty == Archive(<<>>, <<>>, FALSE)
\* the three items, the first one related to the third
ArchRelated == [ArchThree EXCEPT !.rels = {<<1, 3>>}]

ItA == Item("a", 1, NULL, "f", "x")
ItAy == Item("a", 1, NULL, "f", "y")
ItB == Item("b", 1, NULL, "g", "x")
ItBf == [Item("b", 1, NULL, "f", NoReader) EXCEPT !.lat = "40.7"]
ItC == Item("c", 2, NULL, "g", "y")
ItD == [Item("d", 1, NULL, "f", NoReader) EXCEPT !.lat = "40.7"]
ItT == Item("b", 2, "hi", NULL, NoReader)

Opt(names) ==
    [Reprocess |-> "Reprocess" \in names, Prune |-> "Prune" \in names,
     Integrity |-> "Integrity" \in names, Until |-> NoTime,
     SoftMerge |-> "SoftMerge" \in names, PreferNewID |-> "PreferNewID" \in names,
     PreferNewDataText |-> "PreferNewDataText" \in names,
     PreferNewDataFile |-> "PreferNewDataFile" \in names,
     PreferNewMetadata |-> "PreferNewMetadata" \in names]

GetAllParams(until) == TimeframeString(Timeframe(NoTime, until, NULL, NULL))

\* an archive and its accounts row, the command given (with -max-retries),
\* what the service lists, whether its adapter checkpoints, and how many
\* I/O failures happen while the command runs
Scenario(arch, checkpoint, lastItemID, kind, po, service, maxRetries, faults) ==
    [arch |-> arch, checkpoint |-> checkpoint, lastItemID |-> lastItemID,
     kind |-> kind, procOpt |-> po, service |-> service,
     checkpoints |-> checkpoint # NoCheckpoint \/ po.Prune \/ maxRetries > 0,
     maxRetries |-> maxRetries, faults |-> faults]


ScenarioSeq ==
    << \* two items with the same bytes, the first already in the archive
       Scenario(ArchOne, NoCheckpoint, 0, "get-all", Opt({}), <<ItB>>, 0, MaxFaults),
       Scenario(ArchEmpty, NoCheckpoint, 0, "get-all", Opt({}), <<ItA, ItB>>, 0, 0),
       \* two incoming items soft-merge into the same row
       Scenario(ArchOne, NoCheckpoint, 0, "get-all",
                Opt({"SoftMerge", "PreferNewID"}), <<ItBf, ItD>>, 0, 0),
       Scenario(ArchOne, NoCheckpoint, 0, "get-all", Opt({"SoftMerge"}),
                <<ItBf, ItD>>, 0, 0),
       \* an incoming item that has the hash of an existing row, another file name
       Scenario(ArchOne, NoCheckpoint, 0, "get-all", Opt({"SoftMerge"}),
                <<[Item("h", 1, NULL, "g", NoReader) EXCEPT !.svchash = "x", !.lat = "40.7"]>>,
                0, 0),
       \* an incoming item that matches two rows
       Scenario(ArchThree, NoCheckpoint, 0, "get-all",
                Opt({"SoftMerge", "PreferNewID"}),
                <<[Item("z", 2, "hi", "g", NoReader) EXCEPT !.lat = "40.7"]>>, 0, 0),
       \* soft merges that prefer the new data file: the incoming file has
       \* another name than the row's, or the same name
       Scenario(ArchTextFile, NoCheckpoint, 0, "get-all",
                Opt({"SoftMerge", "PreferNewDataFile"}),
                <<Item("b", 1, "hi", "g", "y")>>, 0, 0),
       Scenario(ArchTextFile, NoCheckpoint, 0, "get-all",
                Opt({"SoftMerge", "PreferNewDataFile"}),
                <<Item("b", 1, NULL, "f", "y")>>, 0, 0),
       \* a new item with the bytes a row's edited data file once had
       Scenario(ArchEdited, NoCheckpoint, 0, "get-all", Opt({}),
                <<Item("b", 1, NULL, "g", "x")>>, 0, 0),
       \* items listed again, the service reporting the same hash
       Scenario(ArchServiceHash, NoCheckpoint, 0, "get-all", Opt({}),
                <<[Item("e", 1, NULL, "f", "x") EXCEPT !.svchash = "s"]>>, 0, 0),
       \* soft merges of an item whose text and metadata differ from the row's
       Scenario(ArchFull, NoCheckpoint, 0, "get-all", Opt({"SoftMerge"}),
                <<[Item("b", 1, "yo", "f", NoReader) EXCEPT !.svchash = "t", !.lat = "40.7"]>>,
                0, 0),
       Scenario(ArchFull, NoCheckpoint, 0, "get-all",
                Opt({"SoftMerge", "PreferNewDataText", "PreferNewMetadata", "PreferNewID"}),
                <<[Item("b", 1, "yo", "f", NoReader) EXCEPT !.svchash = "t", !.lat = "40.7"]>>,
                0, 0),
       \* locally modified rows
       Scenario(ArchModifiedEdited, NoCheckpoint, 0, "get-all",
                Opt({"Integrity"}), <<ItA>>, 0, 0),
       Scenario(ArchModified, NoCheckpoint, 0, "get-all",
                Opt({"Reprocess", "Integrity"}), <<ItAy>>, 0, 0),
       Scenario(ArchModified, NoCheckpoint, 0, "get-all",
                Opt({"SoftMerge", "PreferNewID"}), <<ItBf>>, 0, 0),
       \* reprocessing an item that has a data file, with I/O failures
       Scenario(ArchOne, NoCheckpoint, 0, "get-all", Opt({"Reprocess"}),
                <<Item("e", 1, NULL, "f", "y")>>, 0, MaxFaults),
       Scenario(ArchOne, NoCheckpoint, 0, "get-all", Opt({"Reprocess"}),
                <<Item("e", 1, NULL, "h", "y")>>, 0, MaxFaults),
       \* reprocessing an item that has a data file with one that has no reader
       Scenario(ArchOne, NoCheckpoint, 0, "get-all", Opt({"Reprocess"}),
                <<Item("e", 1, "hi", NULL, NoReader)>>, 0, 0),
       \* two new items, the processing of one of them may fail
       Scenario(ArchOne, NoCheckpoint, 0, "get-all", Opt({}),
                <<Item("p", 1, NULL, "p", "y"), Item("q", 2, "hello", NULL, NoReader)>>,
                0, MaxFaults),
       \* two new items whose data files have the same name
       Scenario(ArchOne, NoCheckpoint, 0, "get-all", Opt({}),
                <<Item("a", 1, NULL, "f", "y"), Item("b", 1, NULL, "f", "z")>>, 0, 0),
       \* reprocessing an item that has no data file with one that has
       Scenario(ArchThree, NoCheckpoint, 0, "get-all", Opt({"Reprocess"}),
                <<Item("b", 2, "hi", NULL, "x")>>, 0, 0),
       \* prune, from the start and resumed from a checkpoint
       Scenario(ArchThree, NoCheckpoint, 0, "get-all", Opt({"Prune"}),
                <<ItA, ItT>>, 0, 0),
       Scenario(ArchThree, NoCheckpoint, 0, "get-all", Opt({"Prune"}), <<ItC>>, 0, 0),
       Scenario(ArchThree, MarshalGob(GetAllParams(NoTime), 1), 0, "get-all",
                Opt({"Prune"}), <<ItA, ItC>>, 0, 0),
       Scenario(ArchThree, MarshalGob(GetAllParams(2), 1), 0, "get-all",
                Opt({"Prune"}), <<ItA, ItC>>, 0, 0),
       \* prune after a soft merge that keeps the existing id
       Scenario(ArchOne, NoCheckpoint, 0, "get-all", Opt({"Prune", "SoftMerge"}),
                <<ItBf>>, 0, 0),
       \* prune of rows that share a data file: one of them, or both
       Scenario(ArchShared, NoCheckpoint, 0, "get-all", Opt({"Prune"}), <<ItA>>, 0, 0),
       Scenario(ArchShared, NoCheckpoint, 0, "get-all", Opt({"Prune"}), <<ItC>>, 0, 0),
       \* a graph whose collection holds the node and an item that is not a node
       Scenario(ArchThree, NoCheckpoint, 0, "get-all", Opt({"Prune"}),
                <<[ItA EXCEPT !.coll = <<ItA, Item("m", 2, "hey", NULL, NoReader)>>]>>,
                0, 0),
       \* two graphs whose edges and collections refer to each other's node
       Scenario(ArchThree, NoCheckpoint, 0, "get-all", Opt({}),
                <<[ItA EXCEPT !.edges = <<ItT>>, !.coll = <<ItT>>],
                  [ItT EXCEPT !.edges = <<ItA>>, !.coll = <<ItA>>]>>, 0, 0),
       \* a graph with an edge, in an archive that has a relationship
       Scenario(ArchRelated, NoCheckpoint, 0, "get-all", Opt({"Prune"}),
                <<[ItA EXCEPT !.edges = <<ItT>>]>>, 0, 0),
       Scenario(ArchRelated, NoCheckpoint, 0, "get-all", Opt({"Prune"}),
                <<[ItC EXCEPT !.edges = <<Item("n", 2, "new", NULL, NoReader)>>]>>,
                MaxAttempts - 1, MaxFaults),
       \* a command that is retried after a failed listing
       Scenario(ArchThree, NoCheckpoint, 0, "get-all", Opt({}),
                <<ItA, ItC>>, MaxAttempts - 1, MaxFaults),
       Scenario(ArchThree, NoCheckpoint, 3, "get-latest", Opt({}),
                <<ItC, ItT>>, MaxAttempts - 1, MaxFaults),
       \* imports: into an account without checkpoint, with the checkpoint of
       \* a get-all that had the same parameters, or other ones
       Scenario(ArchOne, NoCheckpoint, 0, "import", Opt({}), <<ItB>>, 0, 0),
       Scenario(ArchThree, MarshalGob(GetAllParams(NoTime), 1), 0, "import",
                Opt({}), <<ItA, ItC>>, 0, 0),
       Scenario(ArchThree, MarshalGob(GetAllParams(2), 1), 0, "import",
                Opt({}), <<ItA, ItC>>, 0, 0),
       \* get-latest
       Scenario(ArchThree,
                MarshalGob(TimeframeString(Timeframe(NoTime, NoTime, "c", NULL)), 1),
                3, "get-latest", Opt({}), <<ItC, ItT>>, 0, 0),
       Scenario(ArchThree, NoCheckpoint, 3, "get-latest",
                [Opt({}) EXCEPT !.Until = 1], <<ItC>>, 0, 0),
       Scenario(ArchThree, NoCheckpoint, 1, "get-latest",
                [Opt({}) EXCEPT !.Until = 2], <<ItC>>, 0, 0),
       \* Until is the timestamp of the last item
       Scenario(ArchThree, NoCheckpoint, 3, "get-latest",
                [Opt({}) EXCEPT !.Until = 2], <<Item("n", 2, "new", NULL, NoReader)>>, 0, 0)
    >>

Scenarios == {ScenarioSeq[i] : i \in DOMAIN ScenarioSeq}

\* getAccount: the checkpoint column is decoded into acc.cp when the row is
\* loaded
getAccountCheckpoint(acc) == UnmarshalGob(acc.checkpoint)

\* NewClient: the account as getAccount loaded it, copied into the client
NewClient(acc) ==
    [cp |-> getAccountCheckpoint(acc), checkpoint |-> acc.checkpoint,
     lastItemID |-> acc.last_item_id,
     commandParams |-> <<>>, lastItemRowID |-> 0, lastItemTimestamp |-> NoTime]

InitWith(sc) ==
    /\ items = sc.arch.items
    /\ fs = sc.arch.fs
    /\ account = [checkpoint |-> sc.checkpoint, last_item_id |-> sc.lastItemID]
    /\ lockset = {}
    /\ wpc = [w \in WorkerIds |-> "idle"]
    /\ wl = [w \in WorkerIds |-> BlankLocal]
    /\ wc = NewClient([checkpoint |-> sc.checkpoint, last_item_id |-> sc.lastItemID])
    /\ op = NoOp
    /\ drv = [attempt |-> 0, faults |-> 0, crashed |-> FALSE]
    /\ cfg = [kind |-> sc.kind, procOpt |-> sc.procOpt, service |-> sc.service,
              checkpoints |-> sc.checkpoints, maxRetries |-> sc.maxRetries,
              faults |-> sc.faults, edited |-> sc.arch.edited, arch |-> sc.arch]
    \* an archive with rows has the person of the account's user
    /\ people = IF sc.arch.items = <<>>
                THEN [persons |-> {}, identities |-> {}]
                ELSE [persons |-> {1}, identities |-> {<<1, UserID>>}]
    /\ relationships = sc.arch.rels
    /\ hist = [reached |-> {}, stored |-> {}, failed |-> FALSE, persons |-> {},
               done |-> {}, errs |-> {}]

Init == \E sc \in Scenarios : InitWith(sc)

Worker(w) ==
    \/ WSoftMerge(w)
    \/ WSoftMergeUpdate(w)
    \/ WLock(w)
    \/ WLoad(w)
    \/ WStage(w)
    \/ WOpen(w)
    \/ WUpsert(w)
    \/ WPersonInsert(w)
    \/ WIdentityInsert(w)
    \/ WInsert(w)
    \/ WRowId(w)
    \/ WDownload(w)
    \/ WDedup(w)
    \/ WHashUpdate(w)
    \/ WReturn(w)
    \/ WRelate(w)
    \/ WExit(w)

Next ==
    \/ GetAll
    \/ GetLatest
    \/ Import
    \/ \E w \in WorkerIds : AdapterSend(w)
    \/ AdapterReturn
    \/ AdapterCancelled
    \/ AdapterError
    \/ successCleanup
    \/ Prune
    \/ \E w \in WorkerIds : Worker(w)

Spec == Init /\ [][Next]_vars

\* the commands the progress of the workers is checked on: new items of a new
\* account, two items merged into one row, a reprocessing and a retried
\* get-latest with an I/O failure, graphs with edges under prune, graphs that
\* refer to each other's node, an import
LiveScenarioSeq ==
    << Scenario(ArchEmpty, NoCheckpoint, 0, "get-all", Opt({}), <<ItA, ItB>>, 0, 0),
       Scenario(ArchOne, NoCheckpoint, 0, "get-all",
                Opt({"SoftMerge", "PreferNewID"}), <<ItBf, ItD>>, 0, 0),
       Scenario(ArchOne, NoCheckpoint, 0, "get-all", Opt({"Reprocess"}),
                <<Item("e", 1, NULL, "f", "y")>>, 0, 1),
       Scenario(ArchThree, NoCheckpoint, 3, "get-latest", Opt({}),
                <<ItC, ItT>>, 1, 1),
       Scenario(ArchRelated, NoCheckpoint, 0, "get-all", Opt({"Prune"}),
                <<[ItA EXCEPT !.edges = <<ItT>>]>>, 0, 0),
       Scenario(ArchThree, NoCheckpoint, 0, "get-all", Opt({}),
                <<[ItA EXCEPT !.edges = <<ItT>>, !.coll = <<ItT>>],
                  [ItT EXCEPT !.edges = <<ItA>>, !.coll = <<ItA>>]>>, 0, 0),
       Scenario(ArchOne, NoCheckpoint, 0, "import", Opt({}), <<ItB>>, 0, 0)
    >>

LiveInit == \E i \in DOMAIN LiveScenarioSeq : InitWith(LiveScenarioSeq[i])

\* the Go scheduler runs every goroutine that can run: each worker takes its
\* next step when it has one
LiveSpec ==
    LiveInit /\ [][Next]_vars /\ \A w \in WorkerIds : WF_vars(Worker(w))

----------------------------------------------------------------------------
\* The command's loop over the accounts: main starts one goroutine per client,
\* each with its own retry loop around GetLatest or GetAll, and waits for them
\* all.  Here drv holds, per account, where its goroutine is and what its
\* calls returned; the operation itself is what Spec describes, and is taken
\* here for its result alone.

NumAccounts == 2
Accounts == 1..NumAccounts

\* main before the goroutines run
DriverInit ==
    /\ drv = [a \in Accounts |-> [pc |-> "for", retryNum |-> 0, calls |-> 0,
                                  result |-> "none"]]
    /\ cfg \in {[kind |-> k, maxRetries |-> m] :
                    k \in {"get-latest", "get-all"}, m \in 0..(MaxAttempts - 1)}
    /\ items = <<>> /\ fs = <<>> /\ lockset = {}
    /\ account = [checkpoint |-> NoCheckpoint, last_item_id |-> 0]
    /\ wpc = [w \in WorkerIds |-> "idle"]
    /\ wl = [w \in WorkerIds |-> BlankLocal]
    /\ wc = NewClient(account)
    /\ op = NoOp
    /\ people = [persons |-> {}, identities |-> {}]
    /\ relationships = {}
    /\ hist = [reached |-> {}, stored |-> {}, failed |-> FALSE, persons |-> {},
               done |-> {}, errs |-> {}]

\* for retryNum := 0; retryNum < 1+maxRetries; retryNum++
LoopTest(a) ==
    /\ drv[a].pc = "for"
    /\ drv' = [drv EXCEPT ![a].pc = IF drv[a].retryNum < 1 + cfg.maxRetries
                                     THEN "call" ELSE "exit"]
    /\ UNCHANGED <<items, account, fs, lockset, wpc, wl, wc, op, cfg, people, hist, relationships>>

\* a loop that ends every goroutine once an account has used up its attempts
CallReturnsFatal(a) ==
    /\ drv[a].pc = "call"
    /\ \E err \in {"nil", "err"} :
          IF err = "err" /\ drv[a].retryNum = cfg.maxRetries
          THEN drv' = [b \in Accounts |->
                         IF b = a
                         THEN [drv[a] EXCEPT !.pc = "exit", !.calls = @ + 1, !.result = err]
                         ELSE [drv[b] EXCEPT !.pc = "exit"]]
          ELSE drv' = [drv EXCEPT ![a].calls = @ + 1, ![a].result = err,
                                  ![a].pc = IF err = "nil" THEN "exit" ELSE "sleep"]
    /\ UNCHANGED <<items, account, fs, lockset, wpc, wl, wc, op, cfg, people, hist, relationships>>

\* err := wc.GetLatest(ctx, tf.Until) or wc.GetAll(ctx, procOpt): nil breaks
\* out of the loop, an error is logged
CallReturns(a) ==
    /\ drv[a].pc = "call"
    /\ \E err \in {"nil", "err"} :
          drv' = [drv EXCEPT ![a].calls = @ + 1, ![a].result = err,
                             ![a].pc = IF err = "nil" THEN "exit" ELSE "sleep"]
    /\ UNCHANGED <<items, account, fs, lockset, wpc, wl, wc, op, cfg, people, hist, relationships>>

\* time.Sleep(retryAfter); continue
Continue(a) ==
    /\ drv[a].pc = "sleep"
    /\ drv' = [drv EXCEPT ![a].pc = "for", ![a].retryNum = @ + 1]
    /\ UNCHANGED <<items, account, fs, lockset, wpc, wl, wc, op, cfg, people, hist, relationships>>

\* wg.Wait() returns when every goroutine has ended
DriverWait ==
    /\ \A a \in Accounts : drv[a].pc = "exit"
    /\ drv' = [a \in Accounts |-> [drv[a] EXCEPT !.pc = "joined"]]
    /\ UNCHANGED <<items, account, fs, lockset, wpc, wl, wc, op, cfg, people, hist, relationships>>

DriverNext ==
    \/ \E a \in Accounts : LoopTest(a)
    \/ \E a \in Accounts : CallReturns(a)
    \/ \E a \in Accounts : Continue(a)
    \/ DriverWait

DriverSpec == DriverInit /\ [][DriverNext]_vars

----------------------------------------------------------------------------
\* processItemGraph on one item graph received from the channel.  Here cfg is
\* the graph (its item graphs 1..NumGraphs, 1 the one received, and the edges
\* between them, cycles and loops included) and the graph whose node cannot
\* be stored, if any; drv is the recursion: the call stack, state.seen, how
\* often each node went through processSingleItemGraphNode, and the
\* relationships inserted.  A stored node gets its graph's number as row id.
\* The graphs have no collections.

NumGraphs == 3
MaxEdges == 3
Graphs == 1..NumGraphs

GraphInit ==
    /\ cfg \in {[edges |-> E, failing |-> f] :
                    E \in {X \in SUBSET (Graphs \X Graphs) : Cardinality(X) <= MaxEdges},
                    f \in 0..NumGraphs}
    /\ drv = [pc |-> "enter", arg |-> 1, stack |-> <<>>, seen |-> {},
              stores |-> [g \in Graphs |-> 0], rels |-> {}, result |-> "none"]
    /\ items = <<>> /\ fs = <<>> /\ lockset = {}
    /\ account = [checkpoint |-> NoCheckpoint, last_item_id |-> 0]
    /\ wpc = [w \in WorkerIds |-> "idle"]
    /\ wl = [w \in WorkerIds |-> BlankLocal]
    /\ wc = NewClient(account)
    /\ op = NoOp
    /\ people = [persons |-> {}, identities |-> {}]
    /\ relationships = {}
    /\ hist = [reached |-> {}, stored |-> {}, failed |-> FALSE, persons |-> {},
               done |-> {}, errs |-> {}]

\* a traversal that records nothing in state.seen
MarkSeenNever(seen, ig) == seen

\* state.seen[ig] = igRowID
MarkSeen(seen, ig) == seen \cup {ig}

\* the caller of a processItemGraph that returned: the relation to the
\* connected node is inserted; the outermost call returns to the worker
ReturnTo(stack, rels, ig) ==
    IF stack = <<>>
    THEN [drv EXCEPT !.pc = "returned", !.result = "nil", !.stack = <<>>,
                     !.rels = rels]
    ELSE [drv EXCEPT !.pc = "edges", !.stack = stack,
                     !.rels = rels \cup {<<stack[Len(stack)].node, ig>>}]

\* processItemGraph(ig) up to its loop over the edges: a graph in state.seen
\* returns its row id; else the node is stored and the graph marked visited,
\* or the store fails and the error ends the traversal
VisitGraph ==
    /\ drv.pc = "enter"
    /\ LET ig == drv.arg
       IN IF ig \in drv.seen
          THEN drv' = ReturnTo(drv.stack, drv.rels, ig)
          ELSE IF cfg.failing = ig
          THEN drv' = [drv EXCEPT !.pc = "returned", !.result = "err",
                                  !.stack = <<>>,
                                  !.stores = [@ EXCEPT ![ig] = @ + 1]]
          ELSE drv' = [drv EXCEPT
                          !.pc = "edges",
                          !.stores = [@ EXCEPT ![ig] = @ + 1],
                          !.seen = MarkSeen(@, ig),
                          !.stack = Append(@, [node |-> ig,
                                               pending |-> {e[2] : e \in {x \in cfg.edges : x[1] = ig}}])]
    /\ UNCHANGED <<items, account, fs, lockset, wpc, wl, wc, op, cfg, people, hist, relationships>>

\* for connectedIG := range ig.Edges, in the order the map yields them: a
\* visited graph is not entered again and its relation is inserted with the
\* recorded row id; any other is processed by a recursive call.  (A traversal
\* that marks what it visits is never deeper than the number of graphs.)
NextEdge ==
    /\ drv.pc = "edges" /\ drv.stack # <<>>
    /\ LET n == Len(drv.stack)
           top == drv.stack[n]
       IN \E t \in top.pending :
             LET rest == [drv.stack EXCEPT ![n].pending = @ \ {t}]
             IN IF t \in drv.seen
                THEN drv' = [drv EXCEPT !.stack = rest,
                                        !.rels = @ \cup {<<top.node, t>>}]
                ELSE /\ n <= NumGraphs
                     /\ drv' = [drv EXCEPT !.stack = rest, !.pc = "enter", !.arg = t]
    /\ UNCHANGED <<items, account, fs, lockset, wpc, wl, wc, op, cfg, people, hist, relationships>>

\* the loop over the edges has ended: processItemGraph returns igRowID
EdgesDone ==
    /\ drv.pc = "edges" /\ drv.stack # <<>>
    /\ LET n == Len(drv.stack)
       IN /\ drv.stack[n].pending = {}
          /\ drv' = ReturnTo(SubSeq(drv.stack, 1, n - 1), drv.rels, drv.stack[n].node)
    /\ UNCHANGED <<items, account, fs, lockset, wpc, wl, wc, op, cfg, people, hist, relationships>>

GraphNext == VisitGraph \/ NextEdge \/ EdgesDone

\* the worker goroutine runs the traversal
GraphSpec == GraphInit /\ [][GraphNext]_vars /\ WF_vars(GraphNext)

----------------------------------------------------------------------------
\* openUniqueCanonicalItemDataFile, one step per turn of its loop, called by
\* the two workers for items that have the same canonical name.  Here cfg
\* tells how many of the names f, f_1, f_2, ... exist when the calls begin, and
\* drv holds, per worker, the loop variable i, tryPath and what was returned.

\* the numbers of existing names the calls are run with: up to MaxPresent, and
\* from MaxTries - MaxPresent up to MaxTries
MaxPresent == 2
Callers == 1..workers

\* tryPath after n names were found taken: the canonical name, then _<n>
TryPath(n) == Path(1, "f", n, 0)

OpenInit ==
    /\ cfg \in {[present |-> k] :
                    k \in (0..MaxPresent) \cup ((MaxTries - MaxPresent)..MaxTries)}
    /\ fs = [p \in {TryPath(n) : n \in 0..(cfg.present - 1)} |-> "x"]
    /\ drv = [w \in Callers |-> [pc |-> "loop", i |-> 0, tryPath |-> TryPath(0),
                                 result |-> NoPath]]
    /\ items = <<>> /\ lockset = {}
    /\ account = [checkpoint |-> NoCheckpoint, last_item_id |-> 0]
    /\ wpc = [w \in WorkerIds |-> "idle"]
    /\ wl = [w \in WorkerIds |-> BlankLocal]
    /\ wc = NewClient(account)
    /\ op = NoOp
    /\ people = [persons |-> {}, identities |-> {}]
    /\ relationships = {}
    /\ hist = [reached |-> {}, stored |-> {}, failed |-> FALSE, persons |-> {},
               done |-> {}, errs |-> {}]

\* an OpenFile without O_EXCL never reports that the file exists
IsExistNever(f, p) == FALSE

\* os.OpenFile(p, O_CREATE|O_RDWR|O_EXCL) fails with os.IsExist(err)
IsExist(f, p) == Exists(f, p)

\* the file exists: tryPath gets the suffix _<i+1> and the loop continues
NameTaken(w) ==
    /\ drv[w].pc = "loop" /\ drv[w].i < MaxTries
    /\ IsExist(fs, drv[w].tryPath)
    /\ drv' = [drv EXCEPT ![w].tryPath = TryPath(drv[w].i + 1), ![w].i = @ + 1]
    /\ UNCHANGED <<items, account, fs, lockset, wpc, wl, wc, op, cfg, people, hist, relationships>>

\* the file is created and returned with its name
Created(w) ==
    /\ drv[w].pc = "loop" /\ drv[w].i < MaxTries
    /\ ~IsExist(fs, drv[w].tryPath)
    /\ fs' = FsWrite(fs, drv[w].tryPath, EmptyFile)
    /\ drv' = [drv EXCEPT ![w].pc = "opened", ![w].result = drv[w].tryPath]
    /\ UNCHANGED <<items, account, lockset, wpc, wl, wc, op, cfg, people, hist, relationships>>

\* the loop has ended: unable to find available filename
GaveUp(w) ==
    /\ drv[w].pc = "loop" /\ drv[w].i = MaxTries
    /\ drv' = [drv EXCEPT ![w].pc = "failed"]
    /\ UNCHANGED <<items, account, fs, lockset, wpc, wl, wc, op, cfg, people, hist, relationships>>

OpenNext == \E w \in Callers : NameTaken(w) \/ Created(w) \/ GaveUp(w)

OpenSpec == OpenInit /\ [][OpenNext]_vars

----------------------------------------------------------------------------
\* NewRateLimitedRoundTripper and RoundTrip for one account.  Here cfg is the
\* rate limit the data source registered, and drv is the limiter: the interval
\* of its ticker, the time in seconds since it was made, the tokens a request
\* can take at once, and how many tokens were made (every request takes one).
\* The first hour is followed.

\* the rates the limiter is made with: 1..MaxRate requests per hour, one per
\* second, and more than one per second
MaxRate == 8
Hour == 3600
Rates == (1..MaxRate) \cup {Hour, Hour + MaxRate, 2 * Hour}

RateInit ==
    /\ cfg \in {[RequestsPerHour |-> r, BurstSize |-> b] : r \in Rates, b \in {0, 2}}
    /\ drv = [pc |-> "new", interval |-> 0, now |-> 0, avail |-> 0, cap |-> 0,
              made |-> 0]
    /\ items = <<>> /\ fs = <<>> /\ lockset = {}
    /\ account = [checkpoint |-> NoCheckpoint, last_item_id |-> 0]
    /\ wpc = [w \in WorkerIds |-> "idle"]
    /\ wl = [w \in WorkerIds |-> BlankLocal]
    /\ wc = NewClient(account)
    /\ op = NoOp
    /\ people = [persons |-> {}, identities |-> {}]
    /\ relationships = {}
    /\ hist = [reached |-> {}, stored |-> {}, failed |-> FALSE, persons |-> {},
               done |-> {}, errs |-> {}]

\* time.Duration(60.0 / (float64(RequestsPerHour) / 60.0)) * time.Second: the
\* conversion to Duration drops the fraction of the seconds
reqInterval(requestsPerHour) == Hour \div requestsPerHour

\* the limiter is made: rl is the zero RateLimit the map lookup yielded, so
\* the token channel has capacity rl.BurstSize = 0 and nothing is put into it;
\* time.NewTicker panics when the interval is not positive
NewRateLimitedRoundTripper ==
    /\ drv.pc = "new"
    /\ LET d == reqInterval(cfg.RequestsPerHour)
       IN drv' = [drv EXCEPT !.pc = IF d <= 0 THEN "panic" ELSE "running",
                             !.interval = d, !.cap = 0, !.avail = 0]
    /\ UNCHANGED <<items, account, fs, lockset, wpc, wl, wc, op, cfg, people, hist, relationships>>

\* the ticker fires: the goroutine has a token to send.  With the channel
\* full, one token waits in the blocked send and one tick in the ticker's
\* channel; further ticks are dropped
Tick ==
    /\ drv.pc = "running" /\ drv.now + drv.interval <= Hour
    /\ drv' = [drv EXCEPT !.now = @ + drv.interval,
                          !.made = @ + 1,
                          !.avail = IF @ < drv.cap + 2 THEN @ + 1 ELSE @]
    /\ UNCHANGED <<items, account, fs, lockset, wpc, wl, wc, op, cfg, people, hist, relationships>>

\* RoundTrip: <-rt.token, then the request is sent
RoundTrip ==
    /\ drv.pc = "running" /\ drv.avail > 0
    /\ drv' = [drv EXCEPT !.avail = @ - 1]
    /\ UNCHANGED <<items, account, fs, lockset, wpc, wl, wc, op, cfg, people, hist, relationships>>

RateNext == NewRateLimitedRoundTripper \/ Tick \/ RoundTrip

RateSpec == RateInit /\ [][RateNext]_vars

----------------------------------------------------------------------------
\* Properties

\* no worker is executing any part of the storage path
Quiescent == \A w \in WorkerIds : wpc[w] \in {"idle", "recv", "done"}

\* the worker is inside the section guarded by the item lock
InStorage(w) == wpc[w] \in {"load", "stage", "open", "upsert", "personIns",
                            "identIns", "insert", "rowid",
                            "download", "dedup", "hashupd", "ret"}

\* C1: at most one goroutine holds the per-key lock of a key at a time: Lock
\* returns only when no other goroutine holds that key, so two workers are
\* never between Lock and Unlock of the same item-lock key together.
C1_KeyMutualExclusion ==
    /\ \A w \in WorkerIds : wl[w].held <=> InStorage(w)
    /\ \A w \in WorkerIds : wl[w].held => wl[w].oid \in lockset
    /\ \A w1, w2 \in WorkerIds :
          (w1 # w2 /\ wl[w1].held /\ wl[w2].held) => wl[w1].oid # wl[w2].oid

\* one worker holds a key while another waits in Lock for the same key
C1_Contended ==
    \E w1, w2 \in WorkerIds :
        /\ w1 # w2 /\ wl[w1].held /\ wpc[w2] = "waiting"
        /\ wl[w2].oid = wl[w1].oid

\* C2: a get-all with prune whose listing was cancelled before the adapter
\* had listed everything deletes no item row and no data file.
C2_CancelledListingDeletesNothing ==
    [][(op.cancelled /\ cfg.kind = "get-all" /\ procOpt.Prune)
        => /\ RowIds(items) \subseteq RowIds(items')
           /\ (op.pc = "prune" => fs' = fs)]_vars

\* C3: a get-all with prune that began while the accounts row held a
\* checkpoint ends with a reported prune refusal and has deleted no row.
C3_CheckpointRefusesPrune ==
    (/\ op.pc = "returned" /\ cfg.kind = "get-all" /\ procOpt.Prune
     /\ op.startCheckpoint # NoCheckpoint
     /\ ~op.cancelled /\ drv.faults = 0)
    => (op.refused /\ op.startRows \subseteq RowIds(items))

\* C4: a row whose modified column is non-null keeps every column, whatever
\* the options of the run and whatever the incoming item carries.
C4_ModifiedRowsUntouched ==
    [][\A r \in RowIds(items) :
          (items[r].modified # NoTime /\ r \in RowIds(items'))
              => items'[r] = items[r]]_vars

\* C5: when an item is processed after another item with the same bytes was
\* stored, both rows name the same data file and that file exists.
C5_IdenticalFilesShareOnePath ==
    (Quiescent /\ ~cfg.edited)
    => \A r1, r2 \in RowIds(items) :
          (/\ items[r1].stored = NoTime /\ items[r2].stored # NoTime
           /\ items[r1].data_hash # NoHash
           /\ items[r1].data_hash = items[r2].data_hash)
          => /\ items[r2].data_file = items[r1].data_file
             /\ Exists(fs, items[r2].data_file)

\* C6: after a get-all with prune that started without a checkpoint and
\* ended without error or cancellation, the rows are exactly the listed
\* ones: every unlisted row is gone, with or without a data file.
C6_PruneLeavesExactlyListed ==
    (/\ op.pc = "returned" /\ cfg.kind = "get-all" /\ procOpt.Prune
     /\ op.startCheckpoint = NoCheckpoint /\ ~op.cancelled
     /\ op.result = "nil" /\ drv.faults = 0)
    => {items[r].original_id : r \in RowIds(items)} = op.cuckoo

\* the row a worker is reading or writing, 0 when it is on none
TargetRow(w) ==
    IF wpc[w] = "smUpdate" THEN wl[w].smRow
    ELSE IF wpc[w] \in {"load", "rowid"} THEN RowIdOf(items, wl[w].oid)
    ELSE IF wpc[w] \in {"stage", "open", "upsert", "personIns", "identIns", "insert"}
         THEN wl[w].ir.id
    ELSE IF wpc[w] \in {"download", "dedup", "hashupd"} THEN wl[w].rowid
    ELSE 0

\* C7: no two workers are in the storage path (soft-merge resolution and
\* the rewrite of original_id included) on the same row together, and two
\* items that soft-merge into the same row leave one row.
C7_OneWorkerPerRow ==
    /\ \A w1, w2 \in WorkerIds :
          (w1 # w2 /\ TargetRow(w1) # 0) => TargetRow(w1) # TargetRow(w2)
    /\ (procOpt.SoftMerge /\ Cardinality(op.startRows) = 1)
          => Cardinality(RowIds(items)) = 1

\* C8: when no worker is in the storage path, a row with a data file has a
\* null data_hash or the SHA-256 of the file its data_file names.
C8_HashMatchesFile ==
    (Quiescent /\ ~cfg.edited)
    => \A r \in RowIds(items) :
          items[r].data_file # NoPath
          => \/ items[r].data_hash = NoHash
             \/ /\ Exists(fs, items[r].data_file)
                /\ Hash(fs[items[r].data_file]) = items[r].data_hash

\* C9: a storage path that renamed the data file to .bak leaves no .bak
\* when it returns: removed on success, renamed back to the original name
\* on any later failure (open, upsert, download, dedup).
C9_BakRemovedOrRestored ==
    [][\A w \in WorkerIds :
          (wpc[w] = "ret" /\ wpc'[w] # "ret" /\ wl[w].bakOrig # NoPath
           /\ Exists(fs, BakOf(wl[w].bakOrig)))
          => /\ ~Exists(fs', BakOf(wl[w].bakOrig))
             /\ wl[w].fail => /\ Exists(fs', wl[w].bakOrig)
                              /\ fs'[wl[w].bakOrig] = fs[BakOf(wl[w].bakOrig)]]_vars

\* the blob the accounts row would yield for the operation's fingerprint
StoredBlobFor(stored, params) ==
    IF stored # NoCheckpoint /\ UnmarshalGob(stored)[1] = params
    THEN UnmarshalGob(stored)[2] ELSE NoBlob

\* C10: at the start of get-all or get-latest the adapter is offered the
\* stored checkpoint blob exactly when the stored fingerprint equals the
\* fingerprint of the new operation, and no blob otherwise.
C10_CheckpointOfferedIffSameParams ==
    op.pc \in {"listing", "wait", "prune"}
    => op.checkpoint = StoredBlobFor(op.startCheckpoint, wc.commandParams)

\* the operation returned because the adapter's listing returned an error
ListingFailed == op.pc = "returned" /\ op.result = "err" /\ ~op.refused

\* C11: when the adapter's listing returns an error, the checkpoint most
\* recently recorded on the accounts row is still there when the operation
\* returns.
C11_ErrorKeepsCheckpoint ==
    ListingFailed => account.checkpoint = op.recorded

\* a listing failed after the adapter had recorded a checkpoint
C11_FailedAfterCheckpoint ==
    ListingFailed /\ op.pos > 0 /\ op.recorded # NoCheckpoint

\* C12: accounts.last_item_id is advanced only by an operation that ended in
\* clean success: after an operation whose listing returned an error, or in
\* which the processing of an item failed, it has the value it had before.
C12_LastItemOnlyOnCleanSuccess ==
    (op.pc = "returned" /\ drv.attempt = 1 /\ (ListingFailed \/ hist.failed))
    => account.last_item_id = op.startLastItem

\* C13: when the operation is cancelled while the adapter is listing, the
\* driver neither clears the account's checkpoint nor advances last_item_id:
\* from the cancellation on the accounts row keeps both.
C13_CancelKeepsAccountRow ==
    [][op.cancelled => /\ account'.checkpoint = account.checkpoint
                       /\ account'.last_item_id = account.last_item_id]_vars

\* C14: an operation returns only after the workers it started have
\* finished every graph the adapter sent, also when the listing returned an
\* error or was cancelled: no worker is still at work once it has returned.
C14_ReturnsAfterWorkers ==
    op.pc = "returned"
    => \A w \in WorkerIds :
          AttemptOf(w) <= drv.attempt => wpc[w] \in {"idle", "recv", "done"}

\* storeItemFromService run alone and without I/O failure on the rows and
\* files st, for an item that is not soft-merged
storeItemFromService(st, it, po) ==
    LET hasReader == it.bytes # NoReader
        ir == loadItemRow(st.items, it.id)
        pdf == IF ir.id > 0 THEN keepNewDataFile(hasReader, ir, FALSE, po) ELSE hasReader
        staged == IF pdf /\ ir.id > 0
                  THEN FsRename(st.fs, ir.data_file, BakOf(ir.data_file)) ELSE st.fs
        n == UniqueSuffix(staged, it)
        p == IF pdf THEN Path(Month(it.ts), canonicalItemDataFileName(it), n, 0) ELSE NoPath
        opened == IF pdf THEN FsWrite(staged, p, EmptyFile) ELSE staged
        tbl == insertOrUpdateItem(st.items, fillItemRow(ir, it, it.id, NoTime, p), FALSE, po)
        rowid == RowIdOf(tbl, it.id)
        written == FsWrite(opened, p, it.bytes)
        S == SameHashRows(tbl, Hash(it.bytes), rowid)
        existing == tbl[CHOOSE r \in S : TRUE].data_file
        kept == IF S = {} THEN written
                ELSE IF existing # NoPath /\ Exists(written, existing)
                        /\ Hash(written[existing]) = Hash(it.bytes)
                THEN FsRemove(written, p)
                ELSE written
        hashed == [tbl EXCEPT ![rowid].data_hash = Hash(it.bytes)]
        bak == IF ir.id > 0 THEN ir.data_file ELSE NoPath
    IN IF ir.id > 0 /\ ~shouldProcessExistingItem(st.fs, it, ir, FALSE, po) THEN st
       ELSE IF ~pdf THEN [st EXCEPT !.items = tbl]
       ELSE IF (ir.id > 0 /\ ir.data_file = NoPath) \/ n = MaxTries THEN st
       ELSE [items |-> hashed, fs |-> DeferBak(kept, bak, "nil")]

\* the items of a listing stored one after the other, in the listing's order
RECURSIVE StoreInOrder(_, _, _)
StoreInOrder(st, its, po) ==
    IF its = <<>> THEN st
    ELSE StoreInOrder(storeItemFromService(st, Head(its), po), Tail(its), po)

\* the rows of the items table without their row id and their stored column
RowsModuloStored(tbl) ==
    {[tbl[r] EXCEPT !.id = 0, !.stored = NoTime] : r \in RowIds(tbl)}

\* the command listed every item, every item was stored without a failure,
\* and nothing was pruned
StoredAll ==
    /\ op.pc = "returned" /\ op.result = "nil" /\ ~op.cancelled /\ Quiescent
    /\ drv.attempt = 1 /\ drv.faults = 0 /\ ~hist.failed /\ ~drv.crashed
    /\ ~procOpt.SoftMerge /\ ~procOpt.Prune /\ ~cfg.edited
    /\ hist.reached = {cfg.service[i].id : i \in DOMAIN cfg.service}

\* C15: without soft merge the final rows of the items table, compared on
\* every column except stored, depend only on the set of items processed:
\* whatever order the workers stored the listed items in, the rows are those
\* obtained by storing the items one by one in the order of the listing.
C15_RowsIndependentOfOrder ==
    StoredAll =>
        RowsModuloStored(items)
            = RowsModuloStored(StoreInOrder([items |-> cfg.arch.items, fs |-> cfg.arch.fs],
                                            cfg.service, procOpt).items)

\* C16: when workers call getPerson for the same user while the user has no
\* identity, one person row and one identity row are created and every call
\* returns that person: a user never has two identity rows, no second person
\* row is created for the user, and no two calls return different persons.
C16_OnePersonPerUser ==
    /\ Cardinality(IdentitiesOf(people, UserID)) <= 1
    /\ Cardinality(people.persons) <= 1
    /\ Cardinality({p \in hist.persons : p[1] = UserID}) <= 1

\* the data files that hold these bytes
FilesWith(f, bytes) == {p \in DOMAIN f : f[p] = bytes}

\* C17: when two different items of the listing have identical content bytes
\* and the two workers have stored both, exactly one file with those bytes
\* remains on disk.
C17_OneFileForIdenticalBytes ==
    StoredAll =>
        \A i, j \in DOMAIN cfg.service :
            (/\ i # j
             /\ cfg.service[i].id # cfg.service[j].id
             /\ cfg.service[i].bytes # NoReader
             /\ cfg.service[i].bytes = cfg.service[j].bytes)
            => Cardinality(FilesWith(fs, cfg.service[i].bytes)) = 1

\* the workers of the first operation have all finished
WorkersFinished ==
    drv.attempt = 1 /\ \A w \in WorkersOf(1) : wpc[w] = "done"

\* C18: when the workers have finished, the tracked last item is the row id
\* of an item whose timestamp is the greatest among all items successfully
\* stored during the run.
C18_TracksGreatestStored ==
    (WorkersFinished /\ hist.stored # {})
    => \E s \in hist.stored :
          /\ s[1] = wc.lastItemRowID
          /\ \A t \in hist.stored : t[2] <= s[2]

\* C19: in a get-all with prune, the original_id of every item that reached
\* the item processor, as a graph node or as a collection member, is in the
\* presence filter when prune starts.
C19_FilterHoldsEveryProcessedItem ==
    (op.pc = "prune" /\ drv.attempt = 1) => hist.reached \subseteq op.cuckoo

\* the timestamp of the row the account's last_item_id named when the
\* command began, NoTime when it named none
LastItemTimestamp ==
    IF wc.lastItemID \in DOMAIN cfg.arch.items
    THEN cfg.arch.items[wc.lastItemID].timestamp ELSE NoTime

\* C20: a get-latest whose Until is at or before the timestamp of the
\* account's last item does no work: the adapter is not asked to list and no
\* row of the items table is inserted or updated.
C20_UntilNotAfterLastItemDoesNothing ==
    (/\ cfg.kind = "get-latest" /\ drv.attempt = 1
     /\ procOpt.Until # NoTime /\ LastItemTimestamp # NoTime
     /\ procOpt.Until <= LastItemTimestamp)
    => /\ op.pc = "returned" /\ op.pos = 0
       /\ items = cfg.arch.items

\* C21: when the account's last_item_id names a row with timestamp T and
\* original id X, a get-latest that goes on to call the adapter passes
\* Since = T and SinceItemID = X, with or without an Until.
C21_LatestWindowStartsAtLastItem ==
    [][(/\ cfg.kind = "get-latest"
        /\ op.pc # "listing" /\ op'.pc = "listing"
        /\ account.last_item_id \in RowIds(items))
       => /\ op'.tf.Since = items[account.last_item_id].timestamp
          /\ op'.tf.SinceItemID = items[account.last_item_id].original_id]_vars

\* it.DataFileHash() is the checksum of the bytes the row's data_hash is of
SameHash(it, row) == it.svchash # NULL /\ row.data_hash = Hash(it.svchash)

\* the rows an incoming item matches for a soft merge: same timestamp, equal
\* text, file name or hash, another original_id
Matches(tbl, it) ==
    {r \in RowIds(tbl) :
        /\ tbl[r].timestamp = it.ts
        /\ \/ (it.text # NULL /\ tbl[r].data_text = it.text)
           \/ (it.fname # NULL /\ LikeFileName(tbl[r].data_file, it.fname))
           \/ SameHash(it, tbl[r])
        /\ tbl[r].original_id # it.id}

\* the listed items that match only row r
MergedInto(r) ==
    {cfg.service[i] : i \in {j \in DOMAIN cfg.service :
                                Matches(cfg.arch.items, cfg.service[j]) = {r}}}

\* a soft merge that keeps the existing id has run to its end: every listed
\* item matched exactly one row, none of them locally modified
SoftMerged ==
    /\ op.pc = "returned" /\ op.result = "nil" /\ ~op.cancelled /\ Quiescent
    /\ drv.attempt = 1 /\ drv.faults = 0 /\ ~drv.crashed
    /\ procOpt.SoftMerge /\ ~procOpt.PreferNewID /\ ~procOpt.Prune
    /\ \A i \in DOMAIN cfg.service :
          /\ Cardinality(Matches(cfg.arch.items, cfg.service[i])) = 1
          /\ \A r \in Matches(cfg.arch.items, cfg.service[i]) :
                cfg.arch.items[r].modified = NoTime

\* C22: with soft merge and the existing id preferred, an incoming item that
\* matches exactly one existing row creates no new row; the row keeps its
\* original_id and its non-null fields, and a null field (here latitude) is
\* filled from an incoming item that has a value for it.
C22_SoftMergeFillsExistingRow ==
    SoftMerged =>
        /\ RowIds(items) = RowIds(cfg.arch.items)
        /\ \A r \in RowIds(cfg.arch.items) :
              LET old == cfg.arch.items[r]
                  new == items[r]
                  lats == {it.lat : it \in MergedInto(r)} \ {NULL}
              IN /\ new.original_id = old.original_id
                 /\ new.timestamp = old.timestamp
                 /\ old.data_text # NULL => new.data_text = old.data_text
                 /\ old.data_file # NoPath => new.data_file = old.data_file
                 /\ old.data_hash # NoHash => new.data_hash = old.data_hash
                 /\ old.latitude # NULL => new.latitude = old.latitude
                 /\ (old.latitude = NULL /\ lats # {}) => new.latitude \in lats

\* every listed item has several soft-merge candidates among the rows
AllAmbiguous ==
    /\ procOpt.SoftMerge /\ ~procOpt.Prune
    /\ \A i \in DOMAIN cfg.service :
          Cardinality(SoftMergeCandidates(cfg.arch.items, cfg.service[i])) > 1

\* C23: an incoming item whose soft-merge candidate set has more than one
\* row is skipped: no row is inserted, updated or given a new original_id,
\* and no file is written, because of it.
C23_AmbiguousItemSkipped ==
    AllAmbiguous => (items = cfg.arch.items /\ fs = cfg.arch.fs)

\* an ambiguous item was received, refused, and the command has returned
C23_AmbiguousItemRefused ==
    /\ AllAmbiguous /\ hist.reached # {} /\ hist.failed
    /\ op.pc = "returned" /\ Quiescent

\* the first operation listed everything and returned without an error
ListedAll ==
    /\ op.pc = "returned" /\ op.result = "nil" /\ ~op.cancelled
    /\ drv.attempt = 1 /\ op.pos = Len(cfg.service)

\* C24: an error while processing one item does not abort the operation:
\* no worker ends while the adapter is still listing, and when the operation
\* has returned every graph the adapter sent (all that follow the checkpoint
\* it resumed from), those after a failing one included, has been received
\* and processed by a worker.
C24_ErrorDoesNotAbort ==
    /\ Listing => \A w \in WorkersOf(drv.attempt) : wpc[w] # "done"
    /\ ListedAll => \A i \in (op.checkpoint + 1)..Len(cfg.service) :
                        cfg.service[i].id \in hist.done

\* the processing of one item failed and an item listed after it was stored
C24_StoredAfterFailure ==
    /\ ListedAll
    /\ \E i, j \in DOMAIN cfg.service :
          /\ i < j
          /\ cfg.service[i].id \in hist.errs
          /\ cfg.service[j].id \in hist.done \ hist.errs

\* C25: for each account the command makes at most 1 + maxRetries calls of
\* GetLatest or GetAll, makes no call after one that returned nil, and the
\* loop of an account ends only on its own success or after its own
\* 1 + maxRetries calls, whatever the loops of the other accounts do.
C25_RetriesPerAccount ==
    \A a \in Accounts :
        /\ drv[a].calls <= 1 + cfg.maxRetries
        /\ drv[a].result = "nil" => drv[a].pc \in {"exit", "joined"}
        /\ drv[a].pc \in {"exit", "joined"}
              => (drv[a].result = "nil" \/ drv[a].calls = 1 + cfg.maxRetries)

\* one account used up its attempts, another succeeded on a retry
C25_ExhaustedAndRetried ==
    \E a, b \in Accounts :
        /\ cfg.maxRetries > 0
        /\ drv[a].pc = "joined" /\ drv[a].result = "err"
        /\ drv[b].pc = "joined" /\ drv[b].result = "nil" /\ drv[b].calls > 1

\* C26: every row of relationships refers to rows of items that exist,
\* whatever was processed and pruned: deleting an item removes every
\* relationship that has it as an endpoint.
C26_RelationshipsReferToRows ==
    \A r \in relationships : r[1] \in RowIds(items) /\ r[2] \in RowIds(items)

\* prune has deleted an item that a relationship of the archive referred to,
\* after a relationship was stored for an edge of a graph
C26_PrunedRelatedItem ==
    /\ op.pc = "returned" /\ op.result = "nil"
    /\ \E r \in cfg.arch.rels : r[1] \notin RowIds(items) \/ r[2] \notin RowIds(items)
    /\ relationships \ cfg.arch.rels # {}

\* C27: when an existing row that has no data file is processed with an
\* incoming item that has a reader, the processing runs to its end, the new
\* file is downloaded, and the row ends with data_file naming a file that
\* holds the item's bytes and data_hash their hash.
C27_RowWithoutFileGetsFile ==
    /\ ~drv.crashed
    /\ (op.pc = "returned" /\ op.result = "nil" /\ Quiescent /\ drv.faults = 0
        /\ ~procOpt.Prune /\ ~procOpt.SoftMerge /\ procOpt.Reprocess)
       => \A i \in DOMAIN cfg.service :
             LET it == cfg.service[i]
                 r == RowIdOf(cfg.arch.items, it.id)
             IN (/\ r # 0 /\ it.bytes # NoReader
                 /\ cfg.arch.items[r].data_file = NoPath
                 /\ cfg.arch.items[r].modified = NoTime)
                => /\ r \in RowIds(items)
                   /\ items[r].data_file # NoPath
                   /\ Exists(fs, items[r].data_file)
                   /\ fs[items[r].data_file] = it.bytes
                   /\ items[r].data_hash = Hash(it.bytes)

\* C28: after a soft merge that prefers the new data file, a row that had a
\* data file and was merged with an item that has one names in data_file an
\* existing file that holds the incoming bytes, and data_hash is their hash.
C28_PreferNewDataFileReplaces ==
    (/\ op.pc = "returned" /\ op.result = "nil" /\ ~op.cancelled /\ Quiescent
     /\ ~drv.crashed /\ drv.faults = 0
     /\ procOpt.SoftMerge /\ procOpt.PreferNewDataFile /\ ~procOpt.Prune)
    => \A i \in DOMAIN cfg.service : \A r \in RowIds(cfg.arch.items) :
          LET it == cfg.service[i]
          IN (/\ Matches(cfg.arch.items, it) = {r}
              /\ it.bytes # NoReader
              /\ cfg.arch.items[r].data_file # NoPath
              /\ cfg.arch.items[r].modified = NoTime)
             => /\ r \in RowIds(items)
                /\ Exists(fs, items[r].data_file)
                /\ fs[items[r].data_file] = it.bytes
                /\ items[r].data_hash = Hash(it.bytes)

\* C29: when the data file of a new item has the hash of another row whose
\* file on disk no longer hashes to it, the new file is renamed over that
\* row's file and the item is processed without error: the existing path holds
\* the incoming bytes and the new row has its data_hash.
C29_ModifiedFileRestored ==
    (/\ op.pc = "returned" /\ ~op.cancelled /\ Quiescent
     /\ ~drv.crashed /\ drv.faults = 0 /\ drv.attempt = 1
     /\ ~procOpt.SoftMerge /\ ~procOpt.Prune)
    => \A i \in DOMAIN cfg.service : \A r \in RowIds(cfg.arch.items) :
          LET it == cfg.service[i]
              old == cfg.arch.items[r]
          IN (/\ it.bytes # NoReader
              /\ RowIdOf(cfg.arch.items, it.id) = 0
              /\ old.data_hash = Hash(it.bytes)
              /\ old.data_file # NoPath /\ Exists(cfg.arch.fs, old.data_file)
              /\ Hash(cfg.arch.fs[old.data_file]) # old.data_hash)
             => /\ it.id \notin hist.errs
                /\ Exists(fs, old.data_file) /\ fs[old.data_file] = it.bytes
                /\ RowIdOf(items, it.id) # 0
                /\ items[RowIdOf(items, it.id)].data_hash = Hash(it.bytes)

\* C30: a listed item that a prune-enabled run soft-merged into an existing
\* row under that row's original_id is not deleted by the prune that ends the
\* run: the row is still in the table when the operation has returned.
C30_MergedRowSurvivesPrune ==
    (/\ op.pc = "returned" /\ op.result = "nil" /\ ~op.cancelled /\ Quiescent
     /\ ~drv.crashed /\ drv.faults = 0 /\ drv.attempt = 1
     /\ procOpt.Prune /\ procOpt.SoftMerge /\ ~procOpt.PreferNewID)
    => \A i \in DOMAIN cfg.service : \A r \in RowIds(cfg.arch.items) :
          LET it == cfg.service[i]
          IN (/\ Matches(cfg.arch.items, it) = {r}
              /\ it.svchash = NULL
              /\ it.id \in hist.done \ hist.errs)
             => \E q \in RowIds(items) :
                   items[q].original_id = cfg.arch.items[r].original_id

\* C31: when the command calls the operation again after a failed attempt in
\* which the adapter recorded a checkpoint, the retry offers the adapter the
\* blob of the checkpoint that is on the accounts row, the one most recently
\* recorded.
C31_RetryOffersLatestCheckpoint ==
    (/\ drv.attempt > 1 /\ op.pc = "listing"
     /\ op.startCheckpoint # NoCheckpoint
     /\ UnmarshalGob(op.startCheckpoint)[1] = wc.commandParams)
    => op.checkpoint = UnmarshalGob(op.startCheckpoint)[2]

\* C32: Import prepares the checkpoint as get-all and get-latest do: the
\* adapter is handed a stored checkpoint only if the fingerprint stored with
\* it is the fingerprint of the import's parameters.
C32_ImportOffersOnlyMatchingCheckpoint ==
    (cfg.kind = "import" /\ op.pc # "none"
     /\ (op.raw # NoCheckpoint \/ op.checkpoint # NoBlob))
    => /\ op.startCheckpoint # NoCheckpoint
       /\ UnmarshalGob(op.startCheckpoint)[1] = TimeframeString(op.tf)

\* the rows the prune step deletes
Pruned == RowIds(items) \ RowIds(items')

\* C33: when prune deletes item rows, a data file is removed from disk if and
\* only if a deleted row referenced it and no row that remains references it;
\* a file that a surviving row references is never removed.
C33_FileRemovedIffUnshared ==
    [][(op.pc = "prune" /\ op'.pc = "returned")
       => \A p \in DOMAIN fs :
             (p \notin DOMAIN fs')
             <=> (/\ \E r \in Pruned : items[r].data_file = p
                  /\ ~\E q \in RowIds(items') : items'[q].data_file = p)]_vars

\* a prune deleted a row whose data file a surviving row still references
C33_SharedFileKept ==
    /\ op.pc = "returned" /\ op.result = "nil" /\ procOpt.Prune
    /\ \E r \in op.startRows \ RowIds(items) : \E q \in RowIds(items) :
          /\ cfg.arch.items[r].data_file # NoPath
          /\ items[q].data_file = cfg.arch.items[r].data_file
          /\ Exists(fs, items[q].data_file)

\* the items of the listed graphs: the nodes, their edges and collections
ListedItems ==
    UNION {{cfg.service[i]}
           \cup {cfg.service[i].edges[j] : j \in DOMAIN cfg.service[i].edges}
           \cup {cfg.service[i].coll[j] : j \in DOMAIN cfg.service[i].coll}
           : i \in DOMAIN cfg.service}

\* the row is unmodified and has its data file with a recorded hash, and no
\* listed item of its id reports another service hash
Settled(row) ==
    /\ row.modified = NoTime
    /\ row.data_file # NoPath /\ row.data_hash # NoHash
    /\ \A it \in ListedItems :
          it.id = row.original_id =>
             (it.svchash = NULL \/ (row.metadata # NULL /\ it.svchash = row.metadata))

\* C34: in an operation without reprocess, integrity check or soft merge (and
\* without prune), listing again an item whose row exists, is unmodified, has
\* its data file with a recorded hash and an unchanged service hash changes no
\* column of that row, stored included; when every listed item is such an
\* item, no file on disk changes.
C34_RelistingChangesNothing ==
    (~procOpt.Reprocess /\ ~procOpt.Integrity /\ ~procOpt.SoftMerge /\ ~procOpt.Prune)
    => /\ \A r \in RowIds(cfg.arch.items) :
             Settled(cfg.arch.items[r])
             => r \in RowIds(items) /\ items[r] = cfg.arch.items[r]
       /\ (\A it \in ListedItems :
              /\ RowIdOf(cfg.arch.items, it.id) # 0
              /\ Settled(cfg.arch.items[RowIdOf(cfg.arch.items, it.id)]))
          => fs = cfg.arch.fs

\* an item of a settled row was listed again and the operation has returned
C34_SettledItemListedAgain ==
    /\ op.pc = "returned" /\ op.result = "nil" /\ ~op.cancelled
    /\ ~procOpt.Reprocess /\ ~procOpt.Integrity /\ ~procOpt.SoftMerge /\ ~procOpt.Prune
    /\ \E i \in DOMAIN cfg.service :
          LET r == RowIdOf(cfg.arch.items, cfg.service[i].id)
          IN /\ r # 0 /\ Settled(cfg.arch.items[r])
             /\ cfg.service[i].svchash # NULL
             /\ cfg.service[i].id \in hist.done \ hist.errs

\* the value a merge-eligible column is to have after a soft merge: the
\* incoming one where the existing one is null, or where the options prefer
\* the new value and there is one
MergedValue(old, new, null, preferNew) ==
    IF old = null \/ (preferNew /\ new # null) THEN new ELSE old

\* a soft merge has run to its end: every listed item matched exactly one row
\* by text or file name, no two of them the same row, none locally modified
SoftMergeDone ==
    /\ op.pc = "returned" /\ op.result = "nil" /\ ~op.cancelled /\ Quiescent
    /\ drv.attempt = 1 /\ drv.faults = 0 /\ ~drv.crashed
    /\ procOpt.SoftMerge /\ ~procOpt.Prune
    /\ \A i \in DOMAIN cfg.service :
          LET it == cfg.service[i]
          IN /\ it.svchash = NULL \/ ~\E r \in RowIds(cfg.arch.items) :
                                        SameHash(it, cfg.arch.items[r])
             /\ Cardinality(Matches(cfg.arch.items, it)) = 1
             /\ \A r \in Matches(cfg.arch.items, it) :
                   /\ cfg.arch.items[r].modified = NoTime
                   /\ Cardinality(MergedInto(r)) = 1

\* C35: a soft merge never deletes existing data.  For every merge-eligible
\* column (text, data file, metadata, latitude) a non-null existing value is
\* kept unless the options prefer the new value and the incoming value is
\* non-null, in which case the incoming value is stored; a null existing value
\* takes the incoming value; no column goes from non-null to null.
C35_SoftMergeKeepsOrPrefers ==
    SoftMergeDone =>
        \A r \in RowIds(cfg.arch.items) : \A it \in MergedInto(r) :
            LET old == cfg.arch.items[r]
                new == items[r]
                name == IF it.bytes = NoReader THEN NULL
                        ELSE canonicalItemDataFileName(it)
                oldName == IF old.data_file = NoPath THEN NULL ELSE old.data_file[2]
                newName == IF new.data_file = NoPath THEN NULL ELSE new.data_file[2]
            IN /\ r \in RowIds(items)
               /\ new.data_text =
                     MergedValue(old.data_text, it.text, NULL, procOpt.PreferNewDataText)
               /\ new.metadata =
                     MergedValue(old.metadata, it.svchash, NULL, procOpt.PreferNewMetadata)
               /\ new.latitude = MergedValue(old.latitude, it.lat, NULL, FALSE)
               /\ newName = MergedValue(oldName, name, NULL, procOpt.PreferNewDataFile)
               /\ old.data_hash # NoHash => new.data_hash # NoHash

\* C36: no state of an operation is a deadlock.  Every worker that is at, or
\* waiting in, the Lock of a per-item key eventually holds it, and every
\* worker whose channel the adapter has closed eventually exits; the critical
\* sections of the filter mutex and of the last-item mutex take no other lock
\* and are single steps.  (A panic ends the process with all its goroutines.)
C36_NoDeadlock ==
    \A w \in WorkerIds :
        /\ (wpc[w] \in {"lock", "waiting"}) ~> (wl[w].held \/ drv.crashed)
        /\ (wpc[w] # "idle" /\ ChannelClosed(w)) ~> (wpc[w] = "done" \/ drv.crashed)

\* a worker waits for the key of an item another worker holds, the item being
\* a node of one graph and the target of an edge of the other
C36_WaitingForEdgeTarget ==
    \E w, v \in WorkerIds :
        /\ wpc[w] = "waiting" /\ wl[v].held /\ wl[v].oid = wl[w].oid
        /\ wl[w].edge # wl[v].edge

\* C37: the traversal of an item graph terminates on every finite graph, with
\* cycles or without, and no graph's node is stored more than once in it: a
\* graph that was visited is not entered again, its recorded row id is used.
C37_TraversalTerminatesStoringOnce ==
    /\ [](\A g \in Graphs : drv.stores[g] <= 1)
    /\ <>(drv.pc = "returned")

\* the traversal of a graph with a cycle has returned, the relations along the
\* cycle inserted
C37_CycleTraversed ==
    /\ drv.pc = "returned" /\ drv.result = "nil"
    /\ {<<1, 2>>, <<2, 1>>} \subseteq cfg.edges
    /\ {<<1, 2>>, <<2, 1>>} \subseteq drv.rels
    /\ drv.stores[1] = 1 /\ drv.stores[2] = 1

\* C38: opening a data file never overwrites a file and never returns a path
\* that existed.  Every file that exists is left as it is; the path a call
\* returns is one the call created, the canonical name or the name with the
\* suffix _<n>, n counting from 1 the names found taken; two workers that ask
\* for the same canonical name get distinct files; and a call fails only after
\* 100 attempts that all found their name taken.
C38_OpensOnlyNewFiles ==
    /\ [][\A p \in DOMAIN fs : p \in DOMAIN fs' /\ fs'[p] = fs[p]]_vars
    /\ [](\A w \in Callers :
            /\ drv[w].pc = "opened"
               => /\ drv[w].result = TryPath(drv[w].i)
                  /\ drv[w].i >= cfg.present /\ drv[w].i < MaxTries
                  /\ Exists(fs, drv[w].result)
                  /\ \A v \in Callers \ {w} : drv[v].result # drv[w].result
            /\ drv[w].pc = "failed"
               => /\ drv[w].i = MaxTries
                  /\ \A n \in 0..(MaxTries - 1) : Exists(fs, TryPath(n)))

\* all names but the last were taken: one worker has created the file with
\* the last suffix, the other has failed after its 100 attempts
C38_LastNameTakenByOther ==
    \E w, v \in Callers :
        /\ drv[w].pc = "opened" /\ drv[w].result = TryPath(MaxTries - 1)
        /\ drv[v].pc = "failed"

\* C39: for every positive requests_per_hour R, below or above 3600, the
\* limiter makes its tokens at the rate of R per hour: it is set up without
\* failure, successive tokens are 3600/R seconds apart and never closer, and
\* no more than R tokens plus the burst are there for requests in the hour.
C39_TokensAtConfiguredRate ==
    /\ drv.pc # "panic"
    /\ drv.pc = "running"
       => /\ drv.interval * cfg.RequestsPerHour >= Hour
          /\ drv.made <= cfg.RequestsPerHour + cfg.BurstSize

\* C40: no item row ever has a data_hash without a data_file, whatever
\* inserts, replacing reprocessings (also with an incoming item that has no
\* reader) and soft merges were done.
C40_NoHashWithoutFile ==
    \A r \in RowIds(items) :
        items[r].data_hash # NoHash => items[r].data_file # NoPath

============================================================================
